---- MODULE Spec2Model ----
(***************************************************************************)
(* Lethain Article Tracker: the durable article store                      *)
(* (chrome.storage.local), the page's in-memory article cache and the      *)
(* operations that read and write them: checkbox status toggles            *)
(* (markAsRead / markAsUnread), background sync (syncArticles), the        *)
(* popup's import (importDataFromFile) and plain cache reads               *)
(* (getArticlesCache).                                                     *)
(*                                                                         *)
(* Every asynchronous operation is cut at its await points.  A store       *)
(* round trip (chrome.storage.local.get / set) takes effect atomically in  *)
(* the step where its callback runs; that step also runs the synchronous   *)
(* continuation up to the next await.  Steps of different operations       *)
(* interleave freely.                                                      *)
(*                                                                         *)
(* A record keeps url, title, isRead and readDate.  publishedDate and      *)
(* dateText are merged by the same `a || b || ''` pattern as title and are *)
(* not carried.  Timestamps are milliseconds; an ISO date string is        *)
(* modelled by the millisecond value it denotes.                           *)
(***************************************************************************)
EXTENDS Integers, Sequences, FiniteSets, TLC

(***************************************************************************)
(* Bounds of the model                                                     *)
(***************************************************************************)
MaxOps == 3        \* operations started in one behaviour
MaxFails == 1      \* store round trips that fail in one behaviour
MaxTicks == 1      \* clock advances in one behaviour
MaxDrafts == 1     \* drafts in one syncArticles call
MaxEntries == 2    \* entries in one import file
MaxFineTicks == 4  \* clock advances in one behaviour, in steps around the TTL
MaxClock == 800    \* milliseconds of page time followed timer by timer
MaxCleanups == 2   \* runs of the teardown handler in one behaviour
MaxRestores == 1   \* restores from the back/forward cache in one behaviour
MaxClicks == 2     \* clicks on a status icon in one behaviour
MaxBatch == 2      \* drafts in one syncArticles call of a page with several links
MaxTrail == 2      \* trailing slashes of a URL handed to normalizeUrl
MaxAuditTimers == 101     \* timers tracked between two audits
MaxAuditListeners == 51   \* document listeners tracked between two audits

(***************************************************************************)
(* Program constants                                                       *)
(***************************************************************************)
CacheTtl == 30000              \* CONFIG.cache.ttl
CacheInvalidation == 100       \* CONFIG.timeouts.cacheInvalidation
InitDelay == 300               \* CONFIG.timeouts.init
InitSecondary == 100           \* CONFIG.timeouts.initSecondary
TooltipDelay == 0              \* CONFIG.timeouts.tooltipDelay
CleanupPeriod == 30000         \* periodicCleanup: the interval and the gate
TimeoutLimit == 100            \* periodicCleanup: this.timeouts.size > 100
ListenerLimit == 50            \* periodicCleanup: this.documentListeners.size > 50
NullDate == 0                  \* readDate: null (falsy, no timestamp)

StartTime == 100000            \* Date.now() when the page session starts
TickSteps == {CacheInvalidation, CacheTtl + 1}  \* amounts by which the clock advances
AdvanceSteps == {50, 100}      \* amounts by which the page's clock advances
ImportDates == {NullDate, 50000, 60000}  \* readDate values found in import files

(***************************************************************************)
(* URLs.  A URL string is modelled by its parts: whether it carries scheme *)
(* and host (abs), its path without trailing slashes, and the number of    *)
(* trailing slashes.  The empty string is EmptyUrl.                        *)
(***************************************************************************)
Url(abs, path, trail) == [abs |-> abs, path |-> path, trail |-> trail]
EmptyUrl == Url(FALSE, "", 0)
RootUrl == Url(TRUE, "", 1)

\* url-utils.js validateUrl: non-empty after trim
ValidateUrl(url) == url # EmptyUrl

\* url-utils.js normalizeUrl: resolve against the base, strip ONE trailing
\* slash unless the result is the root
NormalizeUrl(url) ==
  IF url = EmptyUrl THEN EmptyUrl
  ELSE IF url.path = "" THEN RootUrl
  ELSE Url(TRUE, url.path, IF url.trail > 0 THEN url.trail - 1 ELSE 0)

\* storage.js getStorageKey: prefix + normalizeUrl(url); the constant prefix
\* is left implicit, a key is identified by the URL it is built from
GetStorageKey(url) == IF url = EmptyUrl THEN EmptyUrl ELSE NormalizeUrl(url)

\* the key Storage.getArticle(url) reads: it normalizes, then getStorageKey
\* normalizes again
GetArticleKey(url) == GetStorageKey(NormalizeUrl(url))

\* URL strings as they reach the program (page links, import files)
PageUrls == {Url(FALSE, "a", 0), Url(TRUE, "a", 1), Url(TRUE, "b", 0)}

PageTitle == "T1"              \* link text scraped from the page

(***************************************************************************)
(* Records.  A JS object is a TLA+ record; a missing property is a missing *)
(* field.                                                                  *)
(***************************************************************************)
HasProp(obj, p) == p \in DOMAIN obj
Prop(obj, p, dflt) == IF p \in DOMAIN obj THEN obj[p] ELSE dflt

Article(url, title, isRead, readDate) ==
  [url |-> url, title |-> title, isRead |-> isRead, readDate |-> readDate]

\* a || b for strings
OrStr(a, b) == IF a # "" THEN a ELSE b
\* a || null for dates
OrDate(a) == IF a # NullDate THEN a ELSE NullDate

\* lookup in a JS object / Map: NoArticle stands for undefined / null
NoArticle == [none |-> TRUE]
Lookup(map, key) == IF key \in DOMAIN map THEN map[key] ELSE NoArticle
Put(map, key, val) ==
  [k \in DOMAIN map \cup {key} |-> IF k = key THEN val ELSE map[k]]
EmptyMap == [k \in {} |-> NoArticle]

(***************************************************************************)
(* Merge resolver (article-utils)                                          *)
(***************************************************************************)
\* determineReadStatus(existing, newArticle); nowIso is new Date().toISOString()
DetermineReadStatus(existing, newArticle, nowIso) ==
  IF HasProp(newArticle, "isRead")
  THEN [isRead |-> newArticle.isRead,
        readDate |-> IF HasProp(newArticle, "readDate")
                     THEN newArticle.readDate
                     ELSE IF newArticle.isRead THEN nowIso ELSE NullDate]
  ELSE IF existing # NoArticle
  THEN [isRead |-> Prop(existing, "isRead", FALSE),
        readDate |-> OrDate(Prop(existing, "readDate", NullDate))]
  ELSE [isRead |-> FALSE,
        readDate |-> OrDate(Prop(newArticle, "readDate", NullDate))]

\* a mergeArticleState that takes the read state of the new article
MergeArticleState_TakesDraft(existing, newArticle) ==
  Article(NormalizeUrl(newArticle.url),
          Prop(newArticle, "title", ""),
          Prop(newArticle, "isRead", FALSE),
          OrDate(Prop(newArticle, "readDate", NullDate)))

\* mergeArticleState(existing, newArticle)
MergeArticleState(existing, newArticle) ==
  IF existing = NoArticle
  THEN Article(NormalizeUrl(newArticle.url),
               Prop(newArticle, "title", ""),
               Prop(newArticle, "isRead", FALSE),
               OrDate(Prop(newArticle, "readDate", NullDate)))
  ELSE Article(IF existing.url # EmptyUrl THEN existing.url
               ELSE NormalizeUrl(newArticle.url),
               OrStr(Prop(newArticle, "title", ""), existing.title),
               existing.isRead,
               OrDate(existing.readDate))

\* mergeArticleDataForImport(existing, imported): NoArticle stands for null
MergeArticleDataForImport(existing, imported) ==
  IF ~imported.isRead THEN NoArticle
  ELSE IF ~existing.isRead
  THEN Article(imported.url, OrStr(imported.title, existing.title),
               TRUE, imported.readDate)
  ELSE IF imported.readDate = NullDate THEN NoArticle
  ELSE IF existing.readDate = NullDate \/ imported.readDate > existing.readDate
  THEN Article(imported.url, OrStr(imported.title, existing.title),
               TRUE, imported.readDate)
  ELSE NoArticle

(***************************************************************************)
(* Storage (storage.js): the pure parts of its operations                  *)
(***************************************************************************)
\* saveArticle: the record it writes, given what getArticle returned
SaveArticleData(existing, article, nowIso) ==
  LET status == DetermineReadStatus(existing, article, nowIso)
  IN  Article(NormalizeUrl(article.url),
              OrStr(Prop(article, "title", ""),
                    IF existing # NoArticle THEN existing.title ELSE ""),
              status.isRead, status.readDate)

\* saveArticle: the key it reads (through getArticle) and the key it writes
SaveArticleReadKey(article) == GetArticleKey(NormalizeUrl(article.url))
SaveArticleWriteKey(article) == GetStorageKey(NormalizeUrl(article.url))

\* getOrCreateArticle: the record created for a URL that is not stored yet
NewArticle(url) == Article(NormalizeUrl(url), PageTitle, FALSE, NullDate)

\* a markAsRead that sets the flag and no date
MarkReadArg_NoDate(article, nowIso) ==
  [article EXCEPT !.isRead = TRUE, !.readDate = NullDate]

\* markAsRead: article.isRead = true; article.readDate = new Date().toISOString()
MarkReadArg(article, nowIso) ==
  [article EXCEPT !.isRead = TRUE, !.readDate = nowIso]

\* a markAsUnread that clears the flag and leaves the date
MarkUnreadArg_KeepsDate(article) ==
  [article EXCEPT !.isRead = FALSE]

\* markAsUnread: article.isRead = false; article.readDate = null
MarkUnreadArg(article) ==
  [article EXCEPT !.isRead = FALSE, !.readDate = NullDate]

MarkArg(article, checked, nowIso) ==
  IF checked THEN MarkReadArg(article, nowIso) ELSE MarkUnreadArg(article)

\* getAllArticles + the loop that keys the result by article.url
\* (getArticlesCache, getExistingArticlesMap)
ArticlesByUrl(st) ==
  [u \in {st[k].url : k \in DOMAIN st} |->
     st[CHOOSE k \in DOMAIN st : st[k].url = u]]

\* saveArticles: the object handed to chrome.storage.local.set; a later
\* element of the array overwrites an earlier one with the same key
ValidArticle(article) == HasProp(article, "url") /\ ValidateUrl(article.url)

SaveArticlesKey(article) == GetStorageKey(NormalizeUrl(article.url))

SaveArticlesData(articles, existingMap) ==
  LET idx == {i \in 1..Len(articles) : ValidArticle(articles[i])}
      keys == {SaveArticlesKey(articles[i]) : i \in idx}
      last(k) == CHOOSE i \in idx :
                   /\ SaveArticlesKey(articles[i]) = k
                   /\ \A j \in idx : SaveArticlesKey(articles[j]) = k => j <= i
  IN  [k \in keys |->
         MergeArticleState(Lookup(existingMap, NormalizeUrl(articles[last(k)].url)),
                           articles[last(k)])]

\* a set that writes the batch key by key and stops after the first
StoreSet_OneKey(st, data) ==
  IF DOMAIN data = {} THEN st
  ELSE LET k1 == CHOOSE k \in DOMAIN data : TRUE
       IN  [k \in DOMAIN st \cup {k1} |-> IF k = k1 THEN data[k] ELSE st[k]]

\* chrome.storage.local.set(data): every key of data is written
StoreSet(st, data) ==
  [k \in DOMAIN st \cup DOMAIN data |-> IF k \in DOMAIN data THEN data[k] ELSE st[k]]

(***************************************************************************)
(* State                                                                   *)
(***************************************************************************)
VARIABLES
  store,             \* chrome.storage.local: storage key -> article record
  articlesCache,     \* article-cache: [isNull, map]; map: record url -> record
  cacheTimestamp,    \* article-cache: cacheTimestamp
  invalidateTimeout, \* article-cache: id of the invalidation timer last scheduled
  now,               \* Date.now()
  tg,                \* a checkbox change in flight (handleArticleStatusChange)
  rd,                \* a getArticlesCache() call in flight (filter, tracker UI)
  sy,                \* a Storage.syncArticles call in flight
  im,                \* the popup's importDataFromFile call in flight
  imPrev,            \* history: the import completed before the current one
  patched,           \* history: url -> record last patched into the cache by a toggle
  markedRead,        \* history: keys whose markAsRead completed, no markAsUnread since
  cachePoisoned,     \* history: the held snapshot is the {} left by a failed fetch
  opsLeft, fails, ticks,
  cacheCreated,      \* history: Date.now() when the held snapshot was assigned
  tr,                \* a tracker rendering: getArticlesCache().then(getArticleFromCache)
  timeouts,          \* resourceManager.timeouts (tracked) with the browser's
                     \* pending timers (live) and the next timer id (next)
  inv,               \* history: invalidateCache() calls: time of the last one,
                     \* length of the run of calls, each within the delay of the
                     \* one before, that is pending, and of the run the last
                     \* clearing ended, whether that clearing found a snapshot
  listeners,         \* resourceManager.documentListeners (tracked) with the
                     \* click handlers registered on document (doc)
  observers,         \* resourceManager.observers (tracked) with the
                     \* MutationObservers that are observing (connected)
  abort,             \* resourceManager.abortController: the current controller
                     \* and the controllers already aborted
  page,              \* page-injector: how far checkAndInit / init got, whether
                     \* the page is frozen in the back/forward cache, the
                     \* cleanup interval, the controller the trackers' listeners
                     \* were registered with (0: no tracker in the document)
  ui,                \* a tracker's closures in attachTooltipListeners: tooltip
                     \* shown, closeTooltipHandler, tooltipTimeout
  hist               \* history of teardown and restore: cleanup ran and no
                     \* restore since (torn), cleanups, restores, refreshes and
                     \* clicks so far, the times of the last cleanup and restore,
                     \* the timers pending at a cleanup, what cleanup() released
                     \* and released again, the restore after which the tracker
                     \* followed was created again (0: created by init)
  ,
  ap,                \* the last application of a pure function: its name (fn),
                     \* its arguments and what it returned
  audit,             \* resourceManager.lastCleanupTime, the warnings the
                     \* periodic audit logged and what its last run found
  fl                 \* the article list as rendered: pageState.currentFilter,
                     \* the article elements carrying lethain-article-hidden,
                     \* setPageFilter and applyFilter calls in flight, the
                     \* tracker's status icon, link style and checkbox, the
                     \* change handler's filterTimeout, the article elements
                     \* in the document and the trackers in each, the mutation
                     \* observer's timers; history: the icon and the store
                     \* when the last checkbox change began

vars == <<store, articlesCache, cacheTimestamp, invalidateTimeout, now, tg, rd, sy,
          im, imPrev, patched, markedRead, cachePoisoned, opsLeft, fails, ticks,
          cacheCreated, tr, timeouts, inv, listeners, observers, abort, page,
          ui, hist, ap, audit, fl>>

\* pure-function applications and the resource audit
auxVars == <<ap, audit, fl>>
\* the state of the page's UI layer
uiVars == <<listeners, observers, abort, page, ui, hist, auxVars>>
pageVars == <<tr, uiVars>>

NoTimer == 0
NoHandler == 0
NoClosures == [shown |-> FALSE, closeTooltipHandler |-> NoHandler,
               tooltipTimeout |-> NoTimer]
\* the article elements of the page as loaded, by the href of their link
ArticleEls == PageUrls
\* article elements the site adds to the list later
LateEls == {Url(TRUE, "c", 0), Url(TRUE, "d", 0)}

NoFilterState ==
  [filter |-> "all", hidden |-> {}, saves |-> 0, calls |-> <<>>, clicks |-> 0,
   icon |-> "none", link |-> "none", box |-> FALSE, filterTimeout |-> NoTimer,
   changing |-> FALSE, outcome |-> "none", before |-> "none",
   pre |-> EmptyMap,
   els |-> ArticleEls, trackers |-> [e \in ArticleEls \cup LateEls |-> 0],
   mutationTimeout |-> NoTimer, mutFilterTimeout |-> NoTimer]
NullCache == [isNull |-> TRUE, map |-> EmptyMap]
HeldCache(map) == [isNull |-> FALSE, map |-> map]
Idle == [pc |-> "idle"]
NoImport == [none |-> TRUE]

KeyA == Url(TRUE, "a", 0)
InitStores ==
  { EmptyMap,
    [k \in {KeyA} |-> Article(KeyA, PageTitle, FALSE, NullDate)],
    [k \in {KeyA} |-> Article(KeyA, PageTitle, TRUE, 55000)] }

\* no pure function applied yet
NoCall == [fn |-> "none", seq |-> 0]

Init ==
  /\ store \in InitStores
  /\ articlesCache = NullCache
  /\ cacheTimestamp = 0
  /\ invalidateTimeout = NoTimer
  /\ now = StartTime
  /\ tg = Idle /\ rd = Idle /\ sy = Idle /\ im = Idle
  /\ imPrev = NoImport
  /\ patched = EmptyMap
  /\ markedRead = {}
  /\ cachePoisoned = FALSE
  /\ opsLeft = MaxOps
  /\ fails = 0
  /\ ticks = 0
  /\ cacheCreated = 0
  /\ tr = Idle
  /\ timeouts = [live |-> {}, tracked |-> {}, next |-> 1]
  /\ inv = [last |-> 0, calls |-> 0, ended |-> 0, held |-> FALSE]
  /\ listeners = [doc |-> {}, tracked |-> {}]
  /\ observers = [tracked |-> {}, connected |-> {}]
  /\ abort = [current |-> 1, aborted |-> {}]
  /\ page = [phase |-> "loading", suspended |-> FALSE, interval |-> FALSE,
             trackers |-> 0]
  /\ ui = NoClosures
  /\ hist = [torn |-> FALSE, cleanups |-> 0, restores |-> 0, restoredAt |-> 0,
             hiddenAt |-> 0, tornTimers |-> {}, released |-> {}, twice |-> {},
             clicks |-> 0, refreshes |-> 0, recreated |-> 0]
  /\ ap = NoCall
  /\ audit = [lastCleanupTime |-> StartTime, warnings |-> {}, runs |-> 0]
  /\ fl = NoFilterState

Free(op) == op.pc \in {"idle", "done"}
CanStart(op) == Free(op) /\ opsLeft > 0
CanFail == fails < MaxFails

(***************************************************************************)
(* ResourceManager: timers                                                 *)
(***************************************************************************)
\* setTimeout(callback, delay): the pending timer
Timer(id, kind, delay) == [id |-> id, kind |-> kind, due |-> now + delay]

\* trackTimeout(callback, delay); the id it returns is ts.next
RmTrack(ts, kind, delay) ==
  [live |-> ts.live \cup {Timer(ts.next, kind, delay)},
   tracked |-> ts.tracked \cup {ts.next},
   next |-> ts.next + 1]

\* a clearTimeout(id) that forgets the id and leaves the timer pending
RmClear_Keep(ts, id) ==
  [live |-> ts.live, tracked |-> ts.tracked \ {id}, next |-> ts.next]

\* clearTimeout(id): cancels the timer only if the id is tracked
RmClear(ts, id) ==
  [live |-> IF id \in ts.tracked THEN {t \in ts.live : t.id # id} ELSE ts.live,
   tracked |-> ts.tracked \ {id},
   next |-> ts.next]

\* the timer's wrapper runs: this.timeouts.delete(id); callback()
Fired(ts, t) ==
  [live |-> ts.live \ {t}, tracked |-> ts.tracked \ {t.id}, next |-> ts.next]

\* the browser runs a pending timer when it is due, earlier timers first
Due(t) ==
  /\ ~page.suspended
  /\ now >= t.due
  /\ \A u \in timeouts.live :
       u.due > t.due \/ (u.due = t.due /\ u.id >= t.id)

(***************************************************************************)
(* ResourceManager: listeners, observers, cleanup                          *)
(***************************************************************************)
\* a clearAllTimeouts() that empties the set and cancels nothing
RmClearAll_Keep(ts) == [live |-> ts.live, tracked |-> {}, next |-> ts.next]

\* clearAllTimeouts()
RmClearAll(ts) ==
  [live |-> {t \in ts.live : t.id \notin ts.tracked},
   tracked |-> {},
   next |-> ts.next]

\* trackDocumentListener('click', handler)
RmTrackListener(ls, h) ==
  [doc |-> ls.doc \cup {h}, tracked |-> ls.tracked \cup {h}]

\* removeDocumentListener(handler)
RmRemoveListener(ls, h) ==
  IF h \in ls.tracked
  THEN [doc |-> ls.doc \ {h}, tracked |-> ls.tracked \ {h}]
  ELSE ls

\* cleanup(): every tracked listener is removed, the map is cleared
RmCleanupListeners(ls) == [doc |-> ls.doc \ ls.tracked, tracked |-> {}]

\* a cleanup() that disconnects the observers and keeps the list
RmCleanupObservers_Keep(obs) ==
  [tracked |-> obs.tracked, connected |-> obs.connected \ obs.tracked]

\* cleanup(): every tracked observer is disconnected, the list is emptied
RmCleanupObservers(obs) ==
  [tracked |-> {}, connected |-> obs.connected \ obs.tracked]

\* cleanup(): the controller is aborted and replaced
RmCleanupAbort(ab) ==
  [current |-> ab.current + 1, aborted |-> ab.aborted \cup {ab.current}]

\* what a cleanup() releases
RmTrackedResources ==
  {<<"timer", id>> : id \in timeouts.tracked}
    \cup {<<"observer", o>> : o \in observers.tracked}
    \cup {<<"listener", h>> : h \in listeners.tracked}
    \cup {<<"signal", abort.current>>}

(***************************************************************************)
(* article-cache                                                           *)
(***************************************************************************)
\* getArticlesCache: !articlesCache || (now - cacheTimestamp) > CONFIG.cache.ttl
CacheStale(t) == articlesCache.isNull \/ (t - cacheTimestamp) > CacheTtl

\* a getArticleFromCache that looks the url up as given
GetArticleFromCache_Raw(url) ==
  IF articlesCache.isNull \/ url = EmptyUrl THEN NoArticle
  ELSE Lookup(articlesCache.map, url)

\* getArticleFromCache(url)
GetArticleFromCache(url) ==
  IF articlesCache.isNull \/ url = EmptyUrl THEN NoArticle
  ELSE Lookup(articlesCache.map, NormalizeUrl(url))

\* an updateCacheArticle that leaves the snapshot as it is
UpdateCacheArticle_Skip(cache, url, article) == cache

\* an updateCacheArticle that writes under the url as it was passed
UpdateCacheArticle_RawKey(cache, url, article) ==
  IF cache.isNull THEN cache
  ELSE IF article # NoArticle
  THEN HeldCache(Put(cache.map, url, article))
  ELSE HeldCache([k \in DOMAIN cache.map \ {url} |-> cache.map[k]])

\* updateCacheArticle(url, article)
UpdateCacheArticle(cache, url, article) ==
  IF cache.isNull THEN cache
  ELSE IF article # NoArticle
  THEN HeldCache(Put(cache.map, NormalizeUrl(url), article))
  ELSE HeldCache([k \in DOMAIN cache.map \ {NormalizeUrl(url)} |-> cache.map[k]])

\* an invalidateCache() that schedules nothing
Invalidated_Skip(ts, id) == ts

\* invalidateCache() on the timer state ts: cancel the timer last scheduled,
\* schedule a new one
Invalidated(ts, id) ==
  RmTrack(IF id # NoTimer THEN RmClear(ts, id) ELSE ts,
          "invalidate", CacheInvalidation)

InvalidateNoted(ts) ==
  /\ invalidateTimeout' = ts.next
  /\ inv' = [inv EXCEPT
               !.last = now,
               !.calls = IF @ > 0 /\ now - inv.last <= CacheInvalidation
                         THEN @ + 1 ELSE 1]

InvalidateCacheFrom(ts) ==
  /\ timeouts' = Invalidated(ts, invalidateTimeout)
  /\ InvalidateNoted(ts)

InvalidateCache == InvalidateCacheFrom(timeouts)

\* the invalidation timer fires: timeoutFn
InvalidateFire ==
  /\ \E t \in timeouts.live :
       /\ t.kind = "invalidate"
       /\ Due(t)
       /\ timeouts' = Fired(timeouts, t)
  /\ inv' = [inv EXCEPT !.calls = 0, !.ended = inv.calls,
                         !.held = ~articlesCache.isNull]
  /\ articlesCache' = NullCache
  /\ cacheTimestamp' = 0
  /\ cacheCreated' = 0
  /\ invalidateTimeout' = NoTimer
  /\ cachePoisoned' = FALSE
  /\ UNCHANGED <<store, now, tg, rd, sy, im, imPrev, patched, markedRead,
                 opsLeft, fails, ticks,
                 pageVars>>

\* a rebuild that keeps the snapshot another call assigned meanwhile
CacheRebuilt_KeepHeld(t0) ==
  /\ articlesCache' = IF articlesCache.isNull
                       THEN HeldCache(ArticlesByUrl(store))
                       ELSE articlesCache
  /\ cacheTimestamp' = t0
  /\ cacheCreated' = now
  /\ cachePoisoned' = FALSE

\* getArticlesCache(), try branch, after getAllArticles resolved
CacheRebuilt(t0) ==
  /\ articlesCache' = HeldCache(ArticlesByUrl(store))
  /\ cacheTimestamp' = t0
  /\ cacheCreated' = now
  /\ cachePoisoned' = FALSE

\* getArticlesCache(), catch branch
CacheFetchFailed(t0) ==
  /\ articlesCache' = HeldCache(EmptyMap)
  /\ cacheTimestamp' = t0
  /\ cacheCreated' = now
  /\ cachePoisoned' = TRUE
  /\ fails' = fails + 1

\* a caller of getArticlesCache() (applyFilter, createTrackingUI)
ReaderStart ==
  /\ CanStart(rd)
  /\ opsLeft' = opsLeft - 1
  /\ rd' = IF CacheStale(now)
           THEN [pc |-> "fetch", t0 |-> now, sawPoisoned |-> cachePoisoned]
           ELSE [pc |-> "done", outcome |-> "hit", sawPoisoned |-> cachePoisoned]
  /\ UNCHANGED <<store, articlesCache, cacheTimestamp, invalidateTimeout, now, tg,
                 sy, im, imPrev, patched, markedRead, cachePoisoned, fails, ticks, cacheCreated,
                 pageVars, timeouts, inv>>

ReaderFetchOk ==
  /\ rd.pc = "fetch"
  /\ CacheRebuilt(rd.t0)
  /\ rd' = [pc |-> "done", outcome |-> "fetched", sawPoisoned |-> rd.sawPoisoned]
  /\ UNCHANGED <<store, invalidateTimeout, now, tg, sy, im, imPrev, patched,
                 markedRead, opsLeft, fails, ticks,
                 pageVars, timeouts, inv>>

ReaderFetchFail ==
  /\ rd.pc = "fetch"
  /\ CanFail
  /\ CacheFetchFailed(rd.t0)
  /\ rd' = [pc |-> "done", outcome |-> "failed", sawPoisoned |-> rd.sawPoisoned]
  /\ UNCHANGED <<store, invalidateTimeout, now, tg, sy, im, imPrev, patched,
                 markedRead, opsLeft, ticks,
                 pageVars, timeouts, inv>>

\* time passes
Tick ==
  /\ ticks < MaxTicks
  /\ \E d \in TickSteps : now' = now + d
  /\ ticks' = ticks + 1
  /\ UNCHANGED <<store, articlesCache, cacheTimestamp, invalidateTimeout, tg, rd,
                 sy, im, imPrev, patched, markedRead, cachePoisoned, opsLeft, fails, cacheCreated,
                 pageVars, timeouts, inv>>

\* time passes, in steps around the TTL
FineSteps == {1, CacheTtl - 1}

TickFine ==
  /\ ticks < MaxFineTicks
  /\ \E d \in FineSteps : now' = now + d
  /\ ticks' = ticks + 1
  /\ UNCHANGED <<store, articlesCache, cacheTimestamp, cacheCreated,
                 invalidateTimeout, tg, rd, sy, im, imPrev, patched, markedRead,
                 cachePoisoned, opsLeft, fails, pageVars, timeouts, inv>>

(***************************************************************************)
(* createTrackingUI: getArticlesCache().then(() => getArticleFromCache(url)) *)
(***************************************************************************)
TrackerStart ==
  /\ CanStart(tr)
  /\ opsLeft' = opsLeft - 1
  /\ \E url \in PageUrls :
       tr' = IF CacheStale(now)
             THEN [pc |-> "fetch", url |-> url, t0 |-> now]
             ELSE [pc |-> "resolved", url |-> url]
  /\ UNCHANGED <<store, articlesCache, cacheTimestamp, cacheCreated,
                 invalidateTimeout, now, tg, rd, sy, im, imPrev, patched,
                 markedRead, cachePoisoned, fails, ticks, timeouts, inv, uiVars>>

TrackerFetchOk ==
  /\ tr.pc = "fetch"
  /\ CacheRebuilt(tr.t0)
  /\ tr' = [pc |-> "resolved", url |-> tr.url]
  /\ UNCHANGED <<store, invalidateTimeout, now, tg, rd, sy, im, imPrev, patched,
                 markedRead, opsLeft, fails, ticks, timeouts, inv, uiVars>>

\* getArticlesCache() rejected: the catch logs, nothing is rendered
TrackerFetchFail ==
  /\ tr.pc = "fetch"
  /\ CanFail
  /\ CacheFetchFailed(tr.t0)
  /\ tr' = [pc |-> "done", url |-> tr.url, article |-> NoArticle, failed |-> TRUE]
  /\ UNCHANGED <<store, invalidateTimeout, now, tg, rd, sy, im, imPrev, patched,
                 markedRead, opsLeft, ticks, timeouts, inv, uiVars>>

\* the then-callback: const article = getArticleFromCache(url)
TrackerShow ==
  /\ tr.pc = "resolved"
  /\ tr' = [pc |-> "done", url |-> tr.url,
            article |-> GetArticleFromCache(tr.url), failed |-> FALSE]
  /\ UNCHANGED <<store, articlesCache, cacheTimestamp, cacheCreated,
                 invalidateTimeout, now, tg, rd, sy, im, imPrev, patched,
                 markedRead, cachePoisoned, opsLeft, fails, ticks, timeouts, inv, uiVars>>

(***************************************************************************)
(* Checkbox change: handleArticleStatusChange(url, isChecked) calling      *)
(* Storage.markAsRead / markAsUnread, getOrCreateArticle and saveArticle   *)
(***************************************************************************)
Without(map, keys) == [k \in DOMAIN map \ keys |-> map[k]]

\* saveArticle(article) up to its getArticle: the pending call
SaveCall(t, pc, article) ==
  [pc |-> pc, url |-> t.url, checked |-> t.checked, wasRead |-> t.wasRead,
   t0 |-> t.t0, created |-> t.created, arg |-> article]

ToggleStart ==
  /\ CanStart(tg)
  /\ opsLeft' = opsLeft - 1
  /\ \E url \in PageUrls, checked \in BOOLEAN :
       /\ tg' = [pc |-> "goc_get", url |-> url, checked |-> checked,
                     wasRead |-> FALSE, t0 |-> now, created |-> FALSE]
       /\ markedRead' = IF checked THEN markedRead
                        ELSE markedRead \ {GetArticleKey(NormalizeUrl(url))}
  /\ UNCHANGED <<store, articlesCache, cacheTimestamp, invalidateTimeout, now, rd,
                 sy, im, imPrev, patched, cachePoisoned, fails, ticks, cacheCreated,
                 pageVars, timeouts, inv>>

\* getOrCreateArticle: Storage.getArticle(normalizedUrl) resolved
ToggleGetOk ==
  /\ tg.pc = "goc_get"
  /\ LET article == Lookup(store, GetArticleKey(NormalizeUrl(tg.url)))
     IN  tg' = IF article # NoArticle
               THEN SaveCall([tg EXCEPT !.wasRead = article.isRead],
                             "save_get", MarkArg(article, tg.checked, now))
               ELSE SaveCall([tg EXCEPT !.created = TRUE],
                             "create_get", NewArticle(tg.url))
  /\ UNCHANGED <<store, articlesCache, cacheTimestamp, invalidateTimeout, now, rd,
                 sy, im, imPrev, patched, markedRead, cachePoisoned, opsLeft,
                 fails, ticks, cacheCreated,
                 pageVars, timeouts, inv>>

\* saveArticle: getArticle resolved, articleData built, set issued
ToggleSaveGetOk ==
  /\ tg.pc \in {"create_get", "save_get"}
  /\ LET existing == Lookup(store, SaveArticleReadKey(tg.arg))
     IN  tg' = [pc |-> IF tg.pc = "create_get" THEN "create_set" ELSE "save_set",
                url |-> tg.url, checked |-> tg.checked, wasRead |-> tg.wasRead,
                t0 |-> tg.t0, created |-> tg.created,
                key |-> SaveArticleWriteKey(tg.arg),
                data |-> SaveArticleData(existing, tg.arg, now)]
  /\ UNCHANGED <<store, articlesCache, cacheTimestamp, invalidateTimeout, now, rd,
                 sy, im, imPrev, patched, markedRead, cachePoisoned, opsLeft,
                 fails, ticks, cacheCreated,
                 pageVars, timeouts, inv>>

\* getOrCreateArticle's saveArticle resolved; markAsRead / markAsUnread sets
\* the status on the returned record and calls saveArticle again
ToggleCreateSetOk ==
  /\ tg.pc = "create_set"
  /\ store' = Put(store, tg.key, tg.data)
  /\ tg' = SaveCall(tg, "save_get", MarkArg(tg.data, tg.checked, now))
  /\ patched' = Without(patched, {tg.key})
  /\ UNCHANGED <<articlesCache, cacheTimestamp, invalidateTimeout, now, rd, sy, im,
                 imPrev, markedRead, cachePoisoned, opsLeft, fails, ticks, cacheCreated,
                 pageVars, timeouts, inv>>

\* the final saveArticle resolved: handleArticleStatusChange patches the cache
ToggleSaveSetOk ==
  /\ tg.pc = "save_set"
  /\ store' = Put(store, tg.key, tg.data)
  /\ articlesCache' = UpdateCacheArticle(articlesCache, tg.url, tg.data)
  /\ patched' = IF articlesCache.isNull THEN Without(patched, {tg.key})
                ELSE Put(patched, tg.key, tg.data)
  /\ markedRead' = IF tg.checked THEN markedRead \cup {tg.key} ELSE markedRead
  /\ tg' = [pc |-> "done", url |-> tg.url, checked |-> tg.checked,
            wasRead |-> tg.wasRead, t0 |-> tg.t0, created |-> tg.created,
            key |-> tg.key, res |-> "record", ret |-> tg.data]
  /\ UNCHANGED <<cacheTimestamp, invalidateTimeout, now, rd, sy, im, imPrev,
                 cachePoisoned, opsLeft, fails, ticks, cacheCreated,
                 pageVars, timeouts, inv>>

\* any store round trip of the toggle fails: markAsRead / markAsUnread rejects,
\* handleArticleStatusChange catches, calls invalidateCache() and returns null
ToggleFail ==
  /\ tg.pc \in {"goc_get", "create_get", "create_set", "save_get", "save_set"}
  /\ CanFail
  /\ fails' = fails + 1
  /\ InvalidateCache
  /\ tg' = [pc |-> "done", checked |-> tg.checked, res |-> "error"]
  /\ UNCHANGED <<store, articlesCache, cacheTimestamp, now, rd, sy, im, imPrev,
                 patched, markedRead, cachePoisoned, opsLeft, ticks, cacheCreated,
                 pageVars>>

(***************************************************************************)
(* Background sync: Storage.syncArticles(newArticles) with                 *)
(* getExistingArticlesMap and saveArticles                                 *)
(***************************************************************************)
\* a draft as extractArticleFromElement produces it
Draft(url) == [url |-> url, title |-> PageTitle]
DraftLists ==
  UNION {[1..n -> {Draft(u) : u \in PageUrls}] : n \in 1..MaxDrafts}

\* syncArticles: the drafts kept for saving ({...newArticle, url: normalizedUrl})
ArticlesToSave(newArticles, existingMap) ==
  LET keep(d) == /\ ValidArticle(d)
                 /\ NormalizeUrl(d.url) \notin DOMAIN existingMap
      norm(d) == [d EXCEPT !.url = NormalizeUrl(d.url)]
      F[i \in 0..Len(newArticles)] ==
        IF i = 0 THEN <<>>
        ELSE IF keep(newArticles[i]) THEN Append(F[i - 1], norm(newArticles[i]))
        ELSE F[i - 1]
  IN  F[Len(newArticles)]

\* syncArticles after getExistingArticlesMap resolved: filter, count, and call
\* saveArticles(articlesToSave, existingMap), which builds data and issues set
SyncAfterMap(drafts, existingMap) ==
  LET toSave == ArticlesToSave(drafts, existingMap)
  IN  IF Len(toSave) = 0
      THEN [pc |-> "done", res |-> "ok", count |-> 0]
      ELSE [pc |-> "set", data |-> SaveArticlesData(toSave, existingMap),
            count |-> Len(toSave)]

SyncStart ==
  /\ CanStart(sy)
  /\ opsLeft' = opsLeft - 1
  /\ \E drafts \in DraftLists :
       sy' = IF CacheStale(now)
             THEN [pc |-> "cache_fetch", drafts |-> drafts, t0 |-> now]
             ELSE SyncAfterMap(drafts, articlesCache.map)
  /\ UNCHANGED <<store, articlesCache, cacheTimestamp, invalidateTimeout, now, tg,
                 rd, im, imPrev, patched, markedRead, cachePoisoned, fails, ticks, cacheCreated,
                 pageVars, timeouts, inv>>

\* getExistingArticlesMap: getArticlesCache() rebuilt the cache
SyncCacheFetchOk ==
  /\ sy.pc = "cache_fetch"
  /\ CacheRebuilt(sy.t0)
  /\ sy' = SyncAfterMap(sy.drafts, ArticlesByUrl(store))
  /\ UNCHANGED <<store, invalidateTimeout, now, tg, rd, im, imPrev, patched,
                 markedRead, opsLeft, fails, ticks,
                 pageVars, timeouts, inv>>

\* getExistingArticlesMap: getArticlesCache() threw, fall back to getAllArticles
SyncCacheFetchFail ==
  /\ sy.pc = "cache_fetch"
  /\ CanFail
  /\ CacheFetchFailed(sy.t0)
  /\ sy' = [pc |-> "fallback_get", drafts |-> sy.drafts]
  /\ UNCHANGED <<store, invalidateTimeout, now, tg, rd, im, imPrev, patched,
                 markedRead, opsLeft, ticks,
                 pageVars, timeouts, inv>>

SyncFallbackOk ==
  /\ sy.pc = "fallback_get"
  /\ sy' = SyncAfterMap(sy.drafts, ArticlesByUrl(store))
  /\ UNCHANGED <<store, articlesCache, cacheTimestamp, invalidateTimeout, now, tg,
                 rd, im, imPrev, patched, markedRead, cachePoisoned, opsLeft,
                 fails, ticks, cacheCreated,
                 pageVars, timeouts, inv>>

\* saveArticles: chrome.storage.local.set(data) resolved
SyncSetOk ==
  /\ sy.pc = "set"
  /\ store' = StoreSet(store, sy.data)
  /\ sy' = [pc |-> "done", res |-> "ok", count |-> sy.count]
  /\ patched' = Without(patched, DOMAIN sy.data)
  /\ UNCHANGED <<articlesCache, cacheTimestamp, invalidateTimeout, now, tg, rd, im,
                 imPrev, markedRead, cachePoisoned, opsLeft, fails, ticks, cacheCreated,
                 pageVars, timeouts, inv>>

\* the fallback getAllArticles or the set fails: syncArticles rejects (at:
\* the call that failed)
SyncFail ==
  /\ sy.pc \in {"fallback_get", "set"}
  /\ CanFail
  /\ fails' = fails + 1
  /\ sy' = [pc |-> "done", res |-> "error", count |-> 0, at |-> sy.pc]
  /\ UNCHANGED <<store, articlesCache, cacheTimestamp, invalidateTimeout, now, tg,
                 rd, im, imPrev, patched, markedRead, cachePoisoned, opsLeft, ticks, cacheCreated,
                 pageVars, timeouts, inv>>

(***************************************************************************)
(* Popup import: importDataFromFile(file) with processImportBatch and      *)
(* Storage.saveArticles.  The popup loads no article cache, so its         *)
(* getExistingArticlesMap reads the store through getAllArticles.          *)
(***************************************************************************)
UrlA0 == Url(TRUE, "a", 0)     \* "https://lethain.com/a"
UrlA1 == Url(FALSE, "a", 1)    \* "/a/"

\* entries of an import file's articles array
ImportEntries ==
  {Article(UrlA0, "T2", TRUE, d) : d \in ImportDates}
    \cup {Article(UrlA1, "", TRUE, 60000), Article(UrlA0, "T2", FALSE, 60000),
          Article(EmptyUrl, "T2", TRUE, 60000)}

ImportFiles == UNION {[1..n -> ImportEntries] : n \in 1..MaxEntries}
OneEntryFiles == [1..1 -> ImportEntries]

\* validators.js validateArticle && url-utils validateUrl
ValidateArticle(article) == HasProp(article, "url") /\ article.url # EmptyUrl

\* processImportBatch: validArticles
ValidArticles(articles) ==
  SelectSeq(articles, LAMBDA a : ValidateArticle(a) /\ ValidateUrl(a.url))

\* a processImportBatch that takes every entry without a stored record as new,
\* read or not
ImportClassify_NoReadCheck(existing, article) ==
  IF existing # NoArticle
  THEN LET merged == MergeArticleDataForImport(existing, article)
       IN  IF merged # NoArticle
           THEN [type |-> "updated", article |-> merged]
           ELSE [type |-> "skipped", article |-> NoArticle]
  ELSE [type |-> "imported",
        article |-> Article(article.url, OrStr(article.title, ""), article.isRead,
                            OrDate(article.readDate))]

\* processImportBatch: the result for one valid entry, given what
\* Storage.getArticle(article.url) returned
ImportClassify(existing, article) ==
  IF existing # NoArticle
  THEN LET merged == MergeArticleDataForImport(existing, article)
       IN  IF merged # NoArticle
           THEN [type |-> "updated", article |-> merged]
           ELSE [type |-> "skipped", article |-> NoArticle]
  ELSE IF ~article.isRead
  THEN [type |-> "skipped", article |-> NoArticle]
  ELSE [type |-> "imported",
        article |-> Article(article.url, OrStr(article.title, ""), TRUE,
                            OrDate(article.readDate))]

CountType(results, type) ==
  Cardinality({i \in 1..Len(results) : results[i].type = type})

\* processImportBatch: articlesToSave
ImportToSave(results) ==
  LET kept == SelectSeq(results, LAMBDA r : r.type # "skipped")
  IN  [i \in 1..Len(kept) |-> kept[i].article]

\* an ImportCounts that leaves the entries without a valid url uncounted
ImportCounts_ValidOnly(file, results) ==
  [imported |-> CountType(results, "imported"),
   updated |-> CountType(results, "updated"),
   skipped |-> CountType(results, "skipped")]

\* processImportBatch: { imported, updated, skipped }
ImportCounts(file, results) ==
  [imported |-> CountType(results, "imported"),
   updated |-> CountType(results, "updated"),
   skipped |-> Len(file) - Len(ValidArticles(file)) + CountType(results, "skipped")]

Types(results) == [i \in 1..Len(results) |-> results[i].type]

\* the finished call; a tracked import keeps its file, the store it started
\* from and its results for the import properties
ImportDone(imv, res, results) ==
  IF imv.track
  THEN [pc |-> "done", res |-> res, file |-> imv.file, pre |-> imv.pre,
        types |-> Types(results), counts |-> ImportCounts(imv.file, results)]
  ELSE [pc |-> "done", res |-> res]

\* processImportBatch resolved: importDataFromFile saves articlesToSave, if any
ImportAfterBatch(imv, results) ==
  IF Len(ImportToSave(results)) = 0
  THEN ImportDone(imv, "ok", results)
  ELSE [pc |-> "map_get", file |-> imv.file, pre |-> imv.pre, track |-> imv.track,
        results |-> results]

ImportBegin(files, track) ==
  /\ CanStart(im)
  /\ opsLeft' = opsLeft - 1
  /\ imPrev' = IF im.pc = "done" /\ im.res = "ok" /\ HasProp(im, "file")
               THEN [file |-> im.file, pre |-> im.pre, post |-> store,
                     counts |-> im.counts]
               ELSE NoImport
  /\ \E file \in files :
       LET fresh == [pc |-> "lookup", file |-> file,
                     pre |-> IF track THEN store ELSE EmptyMap,
                     track |-> track, results |-> <<>>]
       IN  im' = IF Len(ValidArticles(file)) = 0
                 THEN ImportAfterBatch(fresh, <<>>)
                 ELSE fresh
  /\ UNCHANGED <<store, articlesCache, cacheTimestamp, invalidateTimeout, now, tg,
                 rd, sy, patched, markedRead, cachePoisoned, fails, ticks, cacheCreated,
                 pageVars, timeouts, inv>>

\* an import while the page is in use
ImportStart == ImportBegin(OneEntryFiles, FALSE)

\* an import by the popup alone, tracked for the import properties together
\* with the import that completed before it
ImportStartTracked == imPrev = NoImport /\ ImportBegin(ImportFiles, TRUE)

\* processImportBatch: Storage.getArticle(article.url) resolved for the next
\* valid entry
ImportLookupOk ==
  /\ im.pc = "lookup"
  /\ LET valid == ValidArticles(im.file)
         article == valid[Len(im.results) + 1]
         existing == Lookup(store, GetArticleKey(article.url))
         results == Append(im.results, ImportClassify(existing, article))
     IN  im' = IF Len(results) = Len(valid)
               THEN ImportAfterBatch(im, results)
               ELSE [im EXCEPT !.results = results]
  /\ UNCHANGED <<store, articlesCache, cacheTimestamp, invalidateTimeout, now, tg,
                 rd, sy, imPrev, patched, markedRead, cachePoisoned, opsLeft,
                 fails, ticks, cacheCreated,
                 pageVars, timeouts, inv>>

\* saveArticles: getExistingArticlesMap resolved, data built, set issued
ImportMapGetOk ==
  /\ im.pc = "map_get"
  /\ im' = [pc |-> "set", file |-> im.file, pre |-> im.pre, track |-> im.track,
            results |-> im.results,
            data |-> SaveArticlesData(ImportToSave(im.results), ArticlesByUrl(store))]
  /\ UNCHANGED <<store, articlesCache, cacheTimestamp, invalidateTimeout, now, tg,
                 rd, sy, imPrev, patched, markedRead, cachePoisoned, opsLeft,
                 fails, ticks, cacheCreated,
                 pageVars, timeouts, inv>>

\* saveArticles: chrome.storage.local.set(data) resolved
ImportSetOk ==
  /\ im.pc = "set"
  /\ store' = StoreSet(store, im.data)
  /\ im' = ImportDone(im, "ok", im.results)
  /\ patched' = Without(patched, DOMAIN im.data)
  /\ UNCHANGED <<articlesCache, cacheTimestamp, invalidateTimeout, now, tg, rd, sy,
                 imPrev, markedRead, cachePoisoned, opsLeft, fails, ticks, cacheCreated,
                 pageVars, timeouts, inv>>

\* a store round trip of the import fails: importDataFromFile rejects
ImportFail ==
  /\ im.pc \in {"lookup", "map_get", "set"}
  /\ CanFail
  /\ fails' = fails + 1
  /\ im' = ImportDone(im, "error", im.results)
  /\ UNCHANGED <<store, articlesCache, cacheTimestamp, invalidateTimeout, now, tg,
                 rd, sy, imPrev, patched, markedRead, cachePoisoned, opsLeft, ticks, cacheCreated,
                 pageVars, timeouts, inv>>

(***************************************************************************)
(* page-injector: load, init, teardown, restore; the trackers' listeners   *)
(***************************************************************************)
cacheVars == <<articlesCache, cacheTimestamp, cacheCreated, cachePoisoned>>
opVars == <<store, tg, sy, im, imPrev, patched, markedRead, opsLeft, fails, ticks>>

Initialized == page.phase \in {"awaiting", "started"}
TrackersLive == page.trackers # 0 /\ page.trackers \notin abort.aborted

\* a call of getArticlesCache() up to its await
CacheCall(op, started) == IF Free(op) THEN started ELSE op

\* applyFilter(): with the filter "all" it returns early, with a read-status
\* filter it goes on to const articles = await getArticlesCache()
ApplyFilterCall(showAll) ==
  IF showAll
  THEN rd
  ELSE CacheCall(rd, IF CacheStale(now)
                     THEN [pc |-> "fetch", t0 |-> now,
                           sawPoisoned |-> cachePoisoned]
                     ELSE [pc |-> "done", outcome |-> "hit",
                           sawPoisoned |-> cachePoisoned])

\* createTrackingUI(): getArticlesCache().then(...), for the tracker followed
CreateTrackerCall(url) ==
  IF CacheStale(now)
  THEN [pc |-> "fetch", url |-> url, t0 |-> now]
  ELSE [pc |-> "resolved", url |-> url]

\* onDOMReady(() => trackTimeout(checkAndInit, initSecondary))
DomReady ==
  /\ page.phase = "loading"
  /\ ~page.suspended
  /\ timeouts' = RmTrack(timeouts, "checkAndInit", InitSecondary)
  /\ page' = [page EXCEPT !.phase = "ready"]
  /\ UNCHANGED <<cacheVars, opVars, auxVars,
                 invalidateTimeout, now, rd, tr, inv,
                 listeners, observers, abort, ui, hist>>

\* checkAndInit(): sets window.__lethainTrackerInitialized, calls init(),
\* which runs up to await pageState.initialize()
CheckAndInitFire ==
  /\ \E t \in timeouts.live :
       /\ t.kind = "checkAndInit"
       /\ Due(t)
       /\ timeouts' = Fired(timeouts, t)
  /\ page' = [page EXCEPT !.phase = IF Initialized THEN @ ELSE "awaiting"]
  /\ UNCHANGED <<cacheVars, opVars, auxVars,
                 invalidateTimeout, now, rd, tr, inv,
                 listeners, observers, abort, ui, hist>>

\* init() after pageState.initialize() resolved
InitResume ==
  /\ page.phase = "awaiting"
  /\ ~page.suspended
  /\ timeouts' = RmTrack(timeouts, "inject", InitDelay)
  /\ observers' = [tracked |-> observers.tracked \cup {1},
                   connected |-> observers.connected \cup {1}]
  /\ page' = [page EXCEPT !.phase = "started", !.interval = TRUE]
  /\ UNCHANGED <<cacheVars, opVars, auxVars,
                 invalidateTimeout, now, rd, tr, inv,
                 listeners, abort, ui, hist>>

\* the timer of init(): injectTrackingUI skips an element that has a tracker,
\* then applyFilter
InjectFire ==
  /\ \E t \in timeouts.live :
       /\ t.kind = "inject"
       /\ Due(t)
       /\ timeouts' = Fired(timeouts, t)
  /\ IF page.trackers = 0
     THEN /\ \E url \in PageUrls : tr' = CreateTrackerCall(url)
          /\ page' = [page EXCEPT !.trackers = abort.current]
          /\ ui' = NoClosures
          /\ hist' = [hist EXCEPT !.recreated = 0]
     ELSE UNCHANGED <<tr, page, ui, hist>>
  /\ \E showAll \in BOOLEAN : rd' = ApplyFilterCall(showAll)
  /\ UNCHANGED <<cacheVars, opVars, auxVars,
                 invalidateTimeout, now, inv, listeners,
                 observers, abort>>

\* the timer of handlePageShow: the trackers are removed and created again,
\* then applyFilter
RefreshFire ==
  /\ \E t \in timeouts.live :
       /\ t.kind = "refresh"
       /\ Due(t)
       /\ timeouts' = Fired(timeouts, t)
  /\ \E url \in PageUrls : tr' = CreateTrackerCall(url)
  /\ page' = [page EXCEPT !.trackers = abort.current]
  /\ ui' = NoClosures
  /\ hist' = [hist EXCEPT !.refreshes = @ + 1, !.recreated = hist.restores]
  /\ \E showAll \in BOOLEAN : rd' = ApplyFilterCall(showAll)
  /\ UNCHANGED <<cacheVars, opVars, auxVars,
                 invalidateTimeout, now, inv, listeners,
                 observers, abort>>

\* click on the status icon: the tooltip opens (handleTooltipOpen) or closes
\* (handleTooltipClose)
IconClick ==
  /\ TrackersLive
  /\ ~page.suspended
  /\ hist.clicks < MaxClicks
  /\ hist' = [hist EXCEPT !.clicks = @ + 1]
  /\ LET cleared == IF ui.tooltipTimeout # NoTimer
                    THEN RmClear(timeouts, ui.tooltipTimeout)
                    ELSE timeouts
         removed == IF ui.closeTooltipHandler # NoHandler
                    THEN RmRemoveListener(listeners, ui.closeTooltipHandler)
                    ELSE listeners
     IN  /\ listeners' = removed
         /\ IF ~ui.shown
            THEN /\ timeouts' = RmTrack(cleared, "tooltip", TooltipDelay)
                 /\ ui' = [ui EXCEPT !.shown = TRUE,
                                     !.closeTooltipHandler = timeouts.next,
                                     !.tooltipTimeout = timeouts.next]
            ELSE /\ timeouts' = cleared
                 /\ ui' = [ui EXCEPT !.shown = FALSE,
                                     !.closeTooltipHandler = NoHandler,
                                     !.tooltipTimeout = NoTimer]
  /\ UNCHANGED <<cacheVars, opVars, auxVars,
                 invalidateTimeout, now, rd, tr, inv,
                 observers, abort, page>>

\* the timer of handleTooltipOpen: trackDocumentListener('click', closeHandler);
\* the handler carries the id of the timer that registers it
TooltipFire ==
  /\ \E t \in timeouts.live :
       /\ t.kind = "tooltip"
       /\ Due(t)
       /\ timeouts' = Fired(timeouts, t)
       /\ listeners' = RmTrackListener(listeners, t.id)
  /\ UNCHANGED <<cacheVars, opVars, auxVars,
                 invalidateTimeout, now, rd, tr, inv,
                 observers, abort, page, ui, hist>>

\* click outside the status container: closeHandler hides the tooltip and
\* removes itself
OutsideClick ==
  /\ ~page.suspended
  /\ \E h \in listeners.doc :
       /\ listeners' = RmRemoveListener(listeners, h)
       /\ ui' = IF h = ui.closeTooltipHandler
                THEN [ui EXCEPT !.shown = FALSE]
                ELSE ui
  /\ UNCHANGED <<cacheVars, opVars, auxVars,
                 invalidateTimeout, now, rd, tr, inv,
                 timeouts, observers, abort, page, hist>>

\* cleanup() of page-injector: resourceManager.cleanup(); invalidateCache()
Cleanup ==
  /\ ~page.suspended
  /\ hist.cleanups < MaxCleanups
  /\ observers' = RmCleanupObservers(observers)
  /\ listeners' = RmCleanupListeners(listeners)
  /\ abort' = RmCleanupAbort(abort)
  /\ InvalidateCacheFrom(RmClearAll(timeouts))
  /\ hist' = [hist EXCEPT
                !.torn = TRUE,
                !.cleanups = @ + 1,
                !.hiddenAt = now,
                !.tornTimers = @ \cup {[id |-> t.id, kind |-> t.kind] :
                                         t \in timeouts.live},
                !.twice = @ \cup (RmTrackedResources \cap hist.released),
                !.released = @ \cup RmTrackedResources]
  /\ UNCHANGED <<cacheVars, opVars, auxVars,
                 now, rd, tr, ui>>

\* beforeunload: the page goes on running
BeforeUnload ==
  /\ Cleanup
  /\ page' = [page EXCEPT !.interval = FALSE]

\* pagehide: the page is frozen in the back/forward cache
PageHide ==
  /\ Cleanup
  /\ page' = [page EXCEPT !.interval = FALSE, !.suspended = TRUE]

\* pageshow with event.persisted: handlePageShow
PageShow ==
  /\ page.suspended
  /\ now > hist.hiddenAt
  /\ hist.restores < MaxRestores
  /\ timeouts' = IF Initialized
                 THEN RmTrack(Invalidated(timeouts, invalidateTimeout),
                              "refresh", InitDelay)
                 ELSE Invalidated(timeouts, invalidateTimeout)
  /\ InvalidateNoted(timeouts)
  /\ page' = [page EXCEPT !.suspended = FALSE]
  /\ hist' = [hist EXCEPT !.torn = FALSE, !.restores = @ + 1,
                          !.restoredAt = now]
  /\ UNCHANGED <<cacheVars, opVars, auxVars,
                 now, rd, tr, listeners, observers, abort,
                 ui>>

\* time passes: a running page's clock does not pass a pending timer
Advance ==
  /\ \E d \in AdvanceSteps :
       /\ now + d <= StartTime + MaxClock
       /\ page.suspended \/ \A t \in timeouts.live : t.due >= now + d
       /\ now' = now + d
  /\ UNCHANGED <<cacheVars, opVars, invalidateTimeout, rd, tr, timeouts, inv,
                 uiVars>>

\* a frozen page runs nothing
Awake(A) == ~page.suspended /\ A

(***************************************************************************)
(* Pure functions applied on their own: each application is noted in ap    *)
(***************************************************************************)
\* the application of fn noted after the one in ap
Applied(fn, args) == [fn |-> fn, seq |-> ap.seq + 1] @@ args

KeyB == Url(TRUE, "b", 0)

\* records a caller passes to updateCacheArticle (updatedArticle of
\* handleArticleStatusChange), or null
PatchRecords ==
  { Article(KeyA, PageTitle, TRUE, 60000),
    Article(KeyB, PageTitle, FALSE, NullDate),
    NoArticle }

\* updateCacheArticle(url, article) called on its own
UpdateCacheArticleCall ==
  /\ opsLeft > 0
  /\ opsLeft' = opsLeft - 1
  /\ \E url \in PageUrls, article \in PatchRecords :
       /\ articlesCache' = UpdateCacheArticle(articlesCache, url, article)
       /\ ap' = Applied("updateCacheArticle",
                        [url |-> url, article |-> article,
                         before |-> articlesCache])
  /\ UNCHANGED <<store, cacheTimestamp, cacheCreated, cachePoisoned,
                 invalidateTimeout, now, tg, rd, sy, im, imPrev, patched,
                 markedRead, fails, ticks, tr, timeouts, inv, listeners,
                 observers, abort, page, ui, hist, audit, fl>>

\* the optional properties of a draft: isRead and readDate, each left out,
\* falsy or set
DraftStates ==
  { [k \in {} |-> TRUE] } \cup
  { [isRead |-> r] : r \in BOOLEAN } \cup
  { [readDate |-> d] : d \in {NullDate, 60000} } \cup
  { [isRead |-> r, readDate |-> d] : r \in BOOLEAN, d \in {NullDate, 60000} }

\* new articles handed to mergeArticleState
MergeDrafts ==
  { [url |-> u, title |-> t] @@ st :
      u \in {Url(FALSE, "a", 0), Url(TRUE, "a", 1)}, t \in {"", "T2"},
      st \in DraftStates }

\* stored records handed to mergeArticleState, or undefined
MergeExisting ==
  { Article(KeyA, t, r, d) : t \in {"", PageTitle}, r \in BOOLEAN,
                             d \in {NullDate, 55000} } \cup {NoArticle}

\* mergeArticleState(existing, newArticle) called on its own
MergeArticleStateCall ==
  /\ opsLeft > 0
  /\ opsLeft' = opsLeft - 1
  /\ \E existing \in MergeExisting, newArticle \in MergeDrafts :
       ap' = Applied("mergeArticleState",
                     [existing |-> existing, newArticle |-> newArticle,
                      out |-> MergeArticleState(existing, newArticle)])
  /\ UNCHANGED <<store, cacheVars, invalidateTimeout, now, tg, rd, sy, im,
                 imPrev, patched, markedRead, fails, ticks, tr, timeouts, inv,
                 listeners, observers, abort, page, ui, hist, audit, fl>>

(***************************************************************************)
(* syncArticles with several drafts in one call                            *)
(***************************************************************************)
\* links of a page: two forms of one article, another article
BatchUrls == {Url(FALSE, "a", 0), Url(TRUE, "a", 1), Url(TRUE, "b", 0)}
\* links of a page, one of them ending in two slashes
SlashUrls == {Url(TRUE, "a", 2), Url(TRUE, "b", 0)}

BatchLists(urls) ==
  UNION {[1..n -> {Draft(u) : u \in urls}] : n \in 1..MaxBatch}

\* syncArticles(newArticles) up to its getExistingArticlesMap; the call and
\* the store it found are noted
SyncStartFrom(lists) ==
  /\ CanStart(sy)
  /\ opsLeft' = opsLeft - 1
  /\ \E drafts \in lists :
       /\ sy' = IF CacheStale(now)
                THEN [pc |-> "cache_fetch", drafts |-> drafts, t0 |-> now]
                ELSE SyncAfterMap(drafts, articlesCache.map)
       /\ ap' = Applied("syncArticles", [drafts |-> drafts, pre |-> store])
  /\ UNCHANGED <<store, cacheVars, invalidateTimeout, now, tg, rd, im, imPrev,
                 patched, markedRead, fails, ticks, tr, timeouts, inv,
                 listeners, observers, abort, page, ui, hist, audit, fl>>

SyncStartBatch == SyncStartFrom(BatchLists(BatchUrls))
SyncStartSlashes == SyncStartFrom(BatchLists(SlashUrls))

(***************************************************************************)
(* importDataFromFile run from a given store with nothing else writing     *)
(***************************************************************************)
Reverse(s) == [i \in 1..Len(s) |-> s[Len(s) + 1 - i]]

\* importDataFromFile(file) from the store pre: processImportBatch with every
\* Storage.getArticle answered from pre, then saveArticles(articlesToSave)
ImportAlone(pre, file) ==
  LET valid == ValidArticles(file)
      results == [i \in 1..Len(valid) |->
                    ImportClassify(Lookup(pre, GetArticleKey(valid[i].url)),
                                   valid[i])]
      toSave == ImportToSave(results)
  IN  [store |-> IF Len(toSave) = 0 THEN pre
                 ELSE StoreSet(pre, SaveArticlesData(toSave, ArticlesByUrl(pre))),
       counts |-> ImportCounts(file, results)]

(***************************************************************************)
(* importDataFromFile on whatever JSON.parse returned                      *)
(***************************************************************************)
\* a parsed file: type is what typeof and the null test tell apart ("null",
\* "string" for any primitive, "array", "object"); articles, when the value
\* has the property, is an array with its items or something else
ArticlesArray(items) == [isArray |-> TRUE, items |-> items]
NotAnArray == [isArray |-> FALSE]

MalformedData ==
  { [type |-> "null"], [type |-> "string"], [type |-> "array"],
    [type |-> "object"], [type |-> "object", articles |-> NotAnArray] }

ImportInputs ==
  MalformedData \cup
  { [type |-> "object", articles |-> ArticlesArray(f)] : f \in OneEntryFiles }

\* an input check that lets everything through
ImportInputError_None(data) == ""

\* validateImportData(importData).error, then the checks at the head of
\* processImportBatch; "" when the input passes
ImportInputError(data) ==
  IF data.type \notin {"object", "array"}
  THEN "Invalid file format. Expected an object."
  ELSE IF ~HasProp(data, "articles") \/ ~data.articles.isArray
  THEN "Invalid file format. The file must contain an array of articles."
  ELSE ""

\* importData.articles as processImportBatch would walk it
ImportItems(data) ==
  IF HasProp(data, "articles") /\ data.articles.isArray
  THEN data.articles.items ELSE <<>>

\* importDataFromFile(file) after file.text() and JSON.parse: the input is
\* checked, then processImportBatch starts its lookups; the call is noted
ImportDataStart ==
  /\ CanStart(im)
  /\ opsLeft' = opsLeft - 1
  /\ \E data \in ImportInputs :
       LET err == ImportInputError(data)
           file == ImportItems(data)
           fresh == [pc |-> "lookup", file |-> file, pre |-> store,
                     track |-> TRUE, results |-> <<>>]
       IN  /\ im' = IF err # ""
                    THEN [pc |-> "done", res |-> "error", error |-> err]
                    ELSE IF Len(ValidArticles(file)) = 0
                    THEN ImportAfterBatch(fresh, <<>>)
                    ELSE fresh
           /\ ap' = Applied("importDataFromFile", [data |-> data])
  /\ UNCHANGED <<store, cacheVars, invalidateTimeout, now, tg, rd, sy, imPrev,
                 patched, markedRead, fails, ticks, tr, timeouts, inv,
                 listeners, observers, abort, page, ui, hist, audit, fl>>

(***************************************************************************)
(* normalizeUrl applied to URL strings of every form                       *)
(***************************************************************************)
\* "", "https://lethain.com", "https://lethain.com/", "/", and paths given
\* absolute or relative with no, one or several trailing slashes
UrlForms ==
  {EmptyUrl, Url(TRUE, "", 0), Url(TRUE, "", 1), Url(FALSE, "", 1)} \cup
  {Url(abs, path, trail) :
     abs \in BOOLEAN, path \in {"a", "b"}, trail \in 0..MaxTrail}

\* normalizeUrl(url) called on its own
NormalizeUrlCall ==
  /\ opsLeft > 0
  /\ opsLeft' = opsLeft - 1
  /\ \E url \in UrlForms :
       ap' = Applied("normalizeUrl", [url |-> url, out |-> NormalizeUrl(url)])
  /\ UNCHANGED <<store, cacheVars, invalidateTimeout, now, tg, rd, sy, im,
                 imPrev, patched, markedRead, fails, ticks, tr, timeouts, inv,
                 listeners, observers, abort, page, ui, hist, audit, fl>>

\* import files of one entry, among them one whose url ends in two slashes
SlashFiles ==
  OneEntryFiles \cup [1..1 -> {Article(Url(TRUE, "a", 2), "T2", TRUE, 60000)}]

\* an import of such a file
ImportStartSlashes == ImportBegin(SlashFiles, FALSE)

(***************************************************************************)
(* ResourceManager: periodicCleanup, the audit of the tracked resources    *)
(***************************************************************************)
\* trackTimeout(callback, delay) by any caller
TrackTimeoutCall ==
  /\ timeouts.next <= MaxAuditTimers
  /\ timeouts' = RmTrack(timeouts, "caller", InitDelay)
  /\ UNCHANGED <<store, cacheVars, invalidateTimeout, now, tg, rd, sy, im,
                 imPrev, patched, markedRead, opsLeft, fails, ticks, tr, inv,
                 listeners, observers, abort, page, ui, hist, auxVars>>

\* trackDocumentListener('click', handler) by any caller, the handler new
TrackListenerCall ==
  /\ Cardinality(listeners.doc) < MaxAuditListeners
  /\ listeners' = RmTrackListener(listeners, Cardinality(listeners.doc) + 1)
  /\ UNCHANGED <<store, cacheVars, invalidateTimeout, now, tg, rd, sy, im,
                 imPrev, patched, markedRead, opsLeft, fails, ticks, tr,
                 timeouts, inv, observers, abort, page, ui, hist, auxVars>>

\* the time to the next audit passes, no timer pending
AuditTick ==
  /\ ticks < MaxTicks
  /\ timeouts.live = {}
  /\ now' = now + CleanupPeriod
  /\ ticks' = ticks + 1
  /\ UNCHANGED <<store, cacheVars, invalidateTimeout, tg, rd, sy, im, imPrev,
                 patched, markedRead, opsLeft, fails, tr, timeouts, inv,
                 listeners, observers, abort, page, ui, hist, auxVars>>

\* periodicCleanup(): returns when the last run is less than the period ago;
\* otherwise warns about and clears the timers when more than 100 are
\* tracked, and warns about the document listeners when more than 50 are
PeriodicCleanup ==
  IF now - audit.lastCleanupTime < CleanupPeriod
  THEN UNCHANGED vars
  ELSE LET manyTimeouts == Cardinality(timeouts.tracked) > TimeoutLimit
           manyListeners == Cardinality(listeners.tracked) > ListenerLimit
       IN  /\ audit' = [lastCleanupTime |-> now,
                        warnings |->
                          (IF manyTimeouts THEN {"timeouts"} ELSE {})
                            \cup (IF manyListeners THEN {"listeners"} ELSE {}),
                        runs |-> audit.runs + 1]
           /\ timeouts' = IF manyTimeouts THEN RmClearAll(timeouts)
                          ELSE timeouts
           /\ UNCHANGED <<store, cacheVars, invalidateTimeout, now, tg, rd, sy,
                          im, imPrev, patched, markedRead, opsLeft, fails,
                          ticks, tr, inv, listeners, observers, abort, page,
                          ui, hist, ap, fl>>

(***************************************************************************)
(* syncArticles handed drafts of any shape                                 *)
(***************************************************************************)
\* drafts as a caller may pass them: complete, with an empty or a missing
\* title, with an empty or a missing url, or null
RawDrafts ==
  { Draft(Url(FALSE, "a", 0)), Draft(Url(TRUE, "b", 0)),
    [url |-> Url(FALSE, "a", 0), title |-> ""],
    [url |-> Url(FALSE, "a", 0)],
    [url |-> EmptyUrl, title |-> PageTitle],
    [title |-> PageTitle],
    NoArticle }

RawLists == UNION {[1..n -> RawDrafts] : n \in 1..MaxBatch}

SyncStartRaw == SyncStartFrom(RawLists)

(***************************************************************************)
(* getArticlesCache() called by two callers whose calls may overlap        *)
(***************************************************************************)
Callers == {1, 2}

\* the calls of the two callers, as noted in ap
CacheCalls ==
  IF ap.fn = "getArticlesCache" THEN ap.calls ELSE [c \in Callers |-> Idle]

\* getArticlesCache() up to its await; overlapped: another call's fetch is
\* pending
GetCacheStart ==
  /\ opsLeft > 0
  /\ opsLeft' = opsLeft - 1
  /\ \E c \in Callers :
       /\ Free(CacheCalls[c])
       /\ ap' = Applied("getArticlesCache",
                  [calls |->
                     [CacheCalls EXCEPT ![c] =
                        IF CacheStale(now)
                        THEN [pc |-> "fetch", t0 |-> now,
                              overlapped |->
                                \E o \in Callers : CacheCalls[o].pc = "fetch"]
                        ELSE [pc |-> "done", outcome |-> "hit"]],
                   last |-> Prop(ap, "last", 0)])
  /\ UNCHANGED <<store, cacheVars, invalidateTimeout, now, tg, rd, sy, im,
                 imPrev, patched, markedRead, fails, ticks, tr, timeouts, inv,
                 listeners, observers, abort, page, ui, hist, audit, fl>>

\* Storage.getAllArticles resolved for one call: the snapshot is built from
\* what it returned (saw) and assigned
GetCacheFetchOk ==
  /\ \E c \in Callers :
       /\ CacheCalls[c].pc = "fetch"
       /\ CacheRebuilt(CacheCalls[c].t0)
       /\ ap' = [ap EXCEPT !.calls[c] =
                   [pc |-> "done", outcome |-> "fetched",
                    overlapped |-> CacheCalls[c].overlapped,
                    saw |-> ArticlesByUrl(store)],
                 !.last = c]
  /\ UNCHANGED <<store, invalidateTimeout, now, tg, rd, sy, im, imPrev,
                 patched, markedRead, opsLeft, fails, ticks, tr, timeouts, inv,
                 listeners, observers, abort, page, ui, hist, audit, fl>>

\* Storage.getAllArticles rejected for one call
GetCacheFetchFail ==
  /\ CanFail
  /\ \E c \in Callers :
       /\ CacheCalls[c].pc = "fetch"
       /\ CacheFetchFailed(CacheCalls[c].t0)
       /\ ap' = [ap EXCEPT !.calls[c] = [pc |-> "done", outcome |-> "failed"],
                           !.last = c]
  /\ UNCHANGED <<store, invalidateTimeout, now, tg, rd, sy, im, imPrev,
                 patched, markedRead, opsLeft, ticks, tr, timeouts, inv,
                 listeners, observers, abort, page, ui, hist, audit, fl>>

\* determineReadStatus(existing, newArticle) called on its own
DetermineReadStatusCall ==
  /\ opsLeft > 0
  /\ opsLeft' = opsLeft - 1
  /\ \E existing \in MergeExisting, newArticle \in MergeDrafts :
       ap' = Applied("determineReadStatus",
                     [existing |-> existing, newArticle |-> newArticle,
                      nowIso |-> now,
                      out |-> DetermineReadStatus(existing, newArticle, now)])
  /\ UNCHANGED <<store, cacheVars, invalidateTimeout, now, tg, rd, sy, im,
                 imPrev, patched, markedRead, fails, ticks, tr, timeouts, inv,
                 listeners, observers, abort, page, ui, hist, audit, fl>>

(***************************************************************************)
(* The checkbox's change handler and the read-status filter                *)
(***************************************************************************)
MaxFilterClicks == 2           \* clicks on the filter buttons
FilterDebounce == 150          \* CONFIG.timeouts.filterDebounce
Filters == {"all", "read", "unread"}

\* updateStatusIcon(statusIcon, tooltip, article, link): the icon class it
\* leaves, and the style updateLinkStyles gives the link
IconOf(article) ==
  IF article # NoArticle /\ article.isRead THEN "read" ELSE "unread"

\* the status icon in the document: drawn by createTrackingUI until a change
\* handler has run
RenderedIcon == IF fl.icon = "none" THEN IconOf(tr.article) ELSE fl.icon

\* the tracker's checkbox in the document: set by createTrackingUI, then by
\* the user and by updateUIAfterStatusChange
RenderedBox ==
  IF fl.icon = "none" THEN tr.article # NoArticle /\ tr.article.isRead
  ELSE fl.box

\* filterByReadStatus(articleElements, articles, currentFilter): the elements
\* hidden afterwards
FilterByReadStatus(hidden, articles, filter) ==
  IF DOMAIN articles = {} THEN hidden
  ELSE {u \in fl.els :
          LET article == Lookup(articles, NormalizeUrl(u))
              isRead == article # NoArticle /\ article.isRead
          IN  ~(IF filter = "read" THEN isRead
                ELSE IF filter = "unread" THEN ~isRead
                ELSE TRUE)}

\* applyFilter(filter, getArticlesCache) up to its first await, on the list
\* state f
FilterApplied(f, filter) ==
  IF filter = "all" THEN [f EXCEPT !.hidden = {}]
  ELSE IF CacheStale(now)
  THEN [f EXCEPT !.calls = Append(@, [filter |-> filter, t0 |-> now])]
  ELSE [f EXCEPT !.hidden = FilterByReadStatus(@, articlesCache.map, filter)]

WithoutCall(calls, i) ==
  [j \in 1..(Len(calls) - 1) |-> IF j < i THEN calls[j] ELSE calls[j + 1]]

\* the checkbox of the tracker changes: the handler calls
\* handleArticleStatusChange(url, isChecked), which calls markAsRead or
\* markAsUnread
CheckboxChange ==
  /\ tr.pc = "done" /\ ~tr.failed
  /\ ~fl.changing
  /\ CanStart(tg)
  /\ opsLeft' = opsLeft - 1
  /\ LET checked == ~RenderedBox IN
       /\ tg' = [pc |-> "goc_get", url |-> tr.url, checked |-> checked,
                 wasRead |-> FALSE, t0 |-> now, created |-> FALSE]
       /\ markedRead' = IF checked THEN markedRead
                        ELSE markedRead \ {GetArticleKey(NormalizeUrl(tr.url))}
       /\ fl' = [fl EXCEPT !.changing = TRUE, !.box = checked,
                           !.before = RenderedIcon, !.pre = store,
                           !.outcome = "none"]
  /\ UNCHANGED <<store, cacheVars, invalidateTimeout, now, rd, sy, im, imPrev,
                 patched, fails, ticks, tr, timeouts, inv, listeners,
                 observers, abort, page, ui, hist, ap, audit>>

\* handleArticleStatusChange has returned: updateUIAfterStatusChange, then
\* scheduleFilterApplication
ChangeRender ==
  /\ fl.changing
  /\ tg.pc = "done"
  /\ LET updatedArticle == IF tg.res = "record" THEN tg.ret ELSE NoArticle
         ts == IF fl.filterTimeout # NoTimer
               THEN RmClear(timeouts, fl.filterTimeout) ELSE timeouts
     IN  /\ fl' = [fl EXCEPT
                     !.changing = FALSE,
                     !.outcome = tg.res,
                     !.icon = IconOf(updatedArticle),
                     !.link = IconOf(updatedArticle),
                     !.box = IF updatedArticle # NoArticle
                             THEN updatedArticle.isRead ELSE @,
                     !.filterTimeout = ts.next]
         /\ timeouts' = RmTrack(ts, "filter", FilterDebounce)
  /\ UNCHANGED <<store, cacheVars, invalidateTimeout, now, tg, rd, sy, im,
                 imPrev, patched, markedRead, opsLeft, fails, ticks, tr, inv,
                 listeners, observers, abort, page, ui, hist, ap, audit>>

\* the filter timer fires: applyFilter(pageState.getFilter(), getArticlesCache)
FilterTimerFire ==
  /\ \E t \in timeouts.live :
       /\ t.kind = "filter"
       /\ Due(t)
       /\ timeouts' = Fired(timeouts, t)
  /\ fl' = FilterApplied(fl, fl.filter)
  /\ UNCHANGED <<store, cacheVars, invalidateTimeout, now, tg, rd, sy, im,
                 imPrev, patched, markedRead, opsLeft, fails, ticks, tr, inv,
                 listeners, observers, abort, page, ui, hist, ap, audit>>

\* a filter button is clicked: setPageFilter(filter) up to the await in
\* pageState.setFilter
FilterClick ==
  /\ fl.clicks < MaxFilterClicks
  /\ \E filter \in Filters :
       fl' = [fl EXCEPT !.filter = filter, !.saves = @ + 1, !.clicks = @ + 1]
  /\ UNCHANGED <<store, cacheVars, invalidateTimeout, now, tg, rd, sy, im,
                 imPrev, patched, markedRead, opsLeft, fails, ticks, tr,
                 timeouts, inv, listeners, observers, abort, page, ui, hist,
                 ap, audit>>

\* Storage.setPageFilter settled (setFilter catches its error):
\* applyFilter(pageState.getFilter(), getArticlesCache)
FilterSaved ==
  /\ fl.saves > 0
  /\ fl' = FilterApplied([fl EXCEPT !.saves = @ - 1], fl.filter)
  /\ UNCHANGED <<store, cacheVars, invalidateTimeout, now, tg, rd, sy, im,
                 imPrev, patched, markedRead, opsLeft, fails, ticks, tr,
                 timeouts, inv, listeners, observers, abort, page, ui, hist,
                 ap, audit>>

\* an applyFilter call's getArticlesCache() resolved with the records read
FilterFetchOk ==
  /\ \E i \in 1..Len(fl.calls) :
       /\ CacheRebuilt(fl.calls[i].t0)
       /\ fl' = [fl EXCEPT
                   !.calls = WithoutCall(@, i),
                   !.hidden = FilterByReadStatus(@, ArticlesByUrl(store),
                                                 fl.calls[i].filter)]
  /\ UNCHANGED <<store, invalidateTimeout, now, tg, rd, sy, im, imPrev,
                 patched, markedRead, opsLeft, fails, ticks, tr, timeouts, inv,
                 listeners, observers, abort, page, ui, hist, ap, audit>>

\* an applyFilter call's getArticlesCache() caught a store error and
\* resolved with {}
FilterFetchFail ==
  /\ CanFail
  /\ \E i \in 1..Len(fl.calls) :
       /\ CacheFetchFailed(fl.calls[i].t0)
       /\ fl' = [fl EXCEPT
                   !.calls = WithoutCall(@, i),
                   !.hidden = FilterByReadStatus(@, EmptyMap,
                                                 fl.calls[i].filter)]
  /\ UNCHANGED <<store, invalidateTimeout, now, tg, rd, sy, im, imPrev,
                 patched, markedRead, opsLeft, ticks, tr, timeouts, inv,
                 listeners, observers, abort, page, ui, hist, ap, audit>>

(***************************************************************************)
(* invalidateCache() while other timers are tracked, run and audited       *)
(***************************************************************************)
\* invalidateCache() called by any caller
InvalidateCall ==
  /\ opsLeft > 0
  /\ opsLeft' = opsLeft - 1
  /\ InvalidateCache
  /\ UNCHANGED <<store, cacheVars, now, tg, rd, sy, im, imPrev, patched,
                 markedRead, fails, ticks, tr, listeners, observers, abort,
                 page, ui, hist, auxVars>>

MaxExpireTimers == 104         \* timer ids handed out while invalidations run

\* n calls of trackTimeout(callback, delay) in a row
RmTrackMany(ts, kind, delay, n) ==
  LET ids == ts.next .. (ts.next + n - 1)
  IN  [live |-> ts.live \cup {Timer(id, kind, delay) : id \in ids},
       tracked |-> ts.tracked \cup ids,
       next |-> ts.next + n]

\* a caller tracks as many timers as the audit tolerates, in one task
TrackTimeoutBurst ==
  /\ timeouts.next + TimeoutLimit <= MaxExpireTimers
  /\ timeouts' = RmTrackMany(timeouts, "caller", InitDelay, TimeoutLimit)
  /\ UNCHANGED <<store, cacheVars, invalidateTimeout, now, tg, rd, sy, im,
                 imPrev, patched, markedRead, opsLeft, fails, ticks, tr, inv,
                 listeners, observers, abort, page, ui, hist, auxVars>>

\* the time to t's due has passed and no pending timer comes before t
Elapsed(t) ==
  /\ ~page.suspended
  /\ \A u \in timeouts.live :
       u.due > t.due \/ (u.due = t.due /\ u.id >= t.id)
  /\ now' = IF now >= t.due THEN now ELSE t.due

\* the browser runs the invalidation timer: timeoutFn
InvalidateTimerRuns ==
  /\ \E t \in timeouts.live :
       /\ t.kind = "invalidate"
       /\ Elapsed(t)
       /\ timeouts' = Fired(timeouts, t)
  /\ inv' = [inv EXCEPT !.calls = 0, !.ended = inv.calls,
                         !.held = ~articlesCache.isNull]
  /\ articlesCache' = NullCache
  /\ cacheTimestamp' = 0
  /\ cacheCreated' = 0
  /\ invalidateTimeout' = NoTimer
  /\ cachePoisoned' = FALSE
  /\ UNCHANGED <<store, tg, rd, sy, im, imPrev, patched, markedRead, opsLeft,
                 fails, ticks, pageVars>>

\* the browser runs the timers callers tracked in one task, one after the
\* other: they are due together
CallerTimerRuns ==
  /\ \E t \in timeouts.live :
       /\ t.kind = "caller"
       /\ Elapsed(t)
       /\ LET batch == {u \in timeouts.live :
                          u.kind = "caller" /\ u.due = t.due}
          IN  timeouts' = [live |-> timeouts.live \ batch,
                           tracked |-> timeouts.tracked \ {u.id : u \in batch},
                           next |-> timeouts.next]
  /\ UNCHANGED <<store, cacheVars, invalidateTimeout, tg, rd, sy, im, imPrev,
                 patched, markedRead, opsLeft, fails, ticks, inv, pageVars>>

(***************************************************************************)
(* Trackers in the article elements: init, the mutation observer, restore  *)
(***************************************************************************)
MutationDebounce == 500        \* CONFIG.timeouts.mutationDebounce
MutationFilterDelay == 200     \* CONFIG.timeouts.mutationFilterDelay

\* an injectTrackingUI that adds a tracker to every article element
InjectTrackingUI_Always(trackers, els) ==
  [e \in DOMAIN trackers |->
     IF e \in els THEN trackers[e] + 1 ELSE trackers[e]]

\* createTrackingUI(articleElement, ...) on an element holding n trackers:
\* returns at once when the element has a tracker
CreateTrackingUI(n) == IF n > 0 THEN n ELSE n + 1

\* injectTrackingUI(): every article element without a tracker gets one
InjectTrackingUI(trackers, els) ==
  [e \in DOMAIN trackers |->
     IF e \in els /\ trackers[e] = 0 THEN CreateTrackingUI(trackers[e])
     ELSE trackers[e]]

\* handlePageShow's timer: every .lethain-tracker is removed
RemoveTrackers(trackers) == [e \in DOMAIN trackers |-> 0]

\* the elements injectTrackingUI gave a tracker
Created(old, new) == {e \in DOMAIN new : new[e] > old[e]}

\* the site adds an article element to the list; a connected observer's
\* callback clears its two timers and tracks the debounce timer
ArticleAdded ==
  /\ ~page.suspended
  /\ \E e \in LateEls \ fl.els :
       IF observers.connected # {}
       THEN LET c1 == IF fl.mutationTimeout # NoTimer
                      THEN RmClear(timeouts, fl.mutationTimeout)
                      ELSE timeouts
                c2 == IF fl.mutFilterTimeout # NoTimer
                      THEN RmClear(c1, fl.mutFilterTimeout) ELSE c1
            IN  /\ timeouts' = RmTrack(c2, "mutation", MutationDebounce)
                /\ fl' = [fl EXCEPT !.els = @ \cup {e},
                                    !.mutationTimeout = c2.next,
                                    !.mutFilterTimeout = NoTimer]
       ELSE /\ fl' = [fl EXCEPT !.els = @ \cup {e}]
            /\ UNCHANGED timeouts
  /\ UNCHANGED <<cacheVars, opVars, ap, audit, invalidateTimeout, now, rd, tr,
                 inv, listeners, observers, abort, page, ui, hist>>

\* the trackers created by one injectTrackingUI(): the one followed calls
\* getArticlesCache(), their listeners carry the current abort signal
TrackersInjected(created) ==
  IF created # {}
  THEN /\ tr' = CreateTrackerCall(CHOOSE url \in created : TRUE)
       /\ page' = [page EXCEPT !.trackers = abort.current]
       /\ ui' = NoClosures
  ELSE UNCHANGED <<tr, page, ui>>

\* the timer of onDOMReady runs checkAndInit(), which calls init() up to
\* await pageState.initialize()
CheckAndInitRuns ==
  /\ \E t \in timeouts.live :
       /\ t.kind = "checkAndInit"
       /\ Elapsed(t)
       /\ timeouts' = Fired(timeouts, t)
  /\ page' = [page EXCEPT !.phase = IF Initialized THEN @ ELSE "awaiting"]
  /\ UNCHANGED <<cacheVars, opVars, auxVars, invalidateTimeout, rd, tr, inv,
                 listeners, observers, abort, ui, hist>>

\* time passes while the page is frozen
FrozenAdvance == page.suspended /\ Advance

\* the timer of init(): injectTrackingUI, createFilterControl, applyFilter
ListInjectFire ==
  /\ \E t \in timeouts.live :
       /\ t.kind = "inject"
       /\ Elapsed(t)
       /\ timeouts' = Fired(timeouts, t)
  /\ LET new == InjectTrackingUI(fl.trackers, fl.els)
     IN  /\ fl' = FilterApplied([fl EXCEPT !.trackers = new], fl.filter)
         /\ TrackersInjected(Created(fl.trackers, new))
         /\ hist' = IF Created(fl.trackers, new) # {}
                    THEN [hist EXCEPT !.recreated = 0] ELSE hist
  /\ UNCHANGED <<cacheVars, opVars, ap, audit, invalidateTimeout, rd, inv,
                 listeners, observers, abort>>

\* the observer's debounce timer: injectTrackingUI, then the filter timer
MutationFire ==
  /\ \E t \in timeouts.live :
       /\ t.kind = "mutation"
       /\ Elapsed(t)
       /\ LET fired == Fired(timeouts, t)
              new == InjectTrackingUI(fl.trackers, fl.els)
          IN  /\ timeouts' = RmTrack(fired, "mutfilter", MutationFilterDelay)
              /\ fl' = [fl EXCEPT !.trackers = new,
                                  !.mutationTimeout = NoTimer,
                                  !.mutFilterTimeout = fired.next]
              /\ TrackersInjected(Created(fl.trackers, new))
  /\ UNCHANGED <<cacheVars, opVars, ap, audit, invalidateTimeout, rd, inv,
                 listeners, observers, abort, hist>>

\* the observer's filter timer: handleFilterControlPosition, applyFilter
MutationFilterFire ==
  /\ \E t \in timeouts.live :
       /\ t.kind = "mutfilter"
       /\ Elapsed(t)
       /\ timeouts' = Fired(timeouts, t)
  /\ fl' = FilterApplied([fl EXCEPT !.mutFilterTimeout = NoTimer], fl.filter)
  /\ UNCHANGED <<cacheVars, opVars, ap, audit, invalidateTimeout, rd, tr, inv,
                 listeners, observers, abort, page, ui, hist>>

\* the timer of handlePageShow: the trackers are removed, injectTrackingUI,
\* applyFilter
ListRefreshFire ==
  /\ \E t \in timeouts.live :
       /\ t.kind = "refresh"
       /\ Elapsed(t)
       /\ timeouts' = Fired(timeouts, t)
  /\ LET removed == RemoveTrackers(fl.trackers)
         new == InjectTrackingUI(removed, fl.els)
     IN  /\ fl' = FilterApplied([fl EXCEPT !.trackers = new], fl.filter)
         /\ TrackersInjected(Created(removed, new))
  /\ hist' = [hist EXCEPT !.refreshes = @ + 1, !.recreated = hist.restores]
  /\ UNCHANGED <<cacheVars, opVars, ap, audit, invalidateTimeout, rd, inv,
                 listeners, observers, abort>>

(***************************************************************************)
(* Specification                                                           *)
(***************************************************************************)
Next ==
  \/ Tick
  \/ InvalidateFire
  \/ ReaderStart \/ ReaderFetchOk \/ ReaderFetchFail
  \/ ToggleStart \/ ToggleGetOk \/ ToggleSaveGetOk \/ ToggleCreateSetOk
  \/ ToggleSaveSetOk \/ ToggleFail
  \/ SyncStart \/ SyncCacheFetchOk \/ SyncCacheFetchFail \/ SyncFallbackOk
  \/ SyncSetOk \/ SyncFail
  \/ ImportStart \/ ImportLookupOk \/ ImportMapGetOk \/ ImportSetOk \/ ImportFail

Spec == Init /\ [][Next]_vars

\* the popup alone: imports run one after the other, nothing else writes
NextImport ==
  \/ ImportStartTracked \/ ImportLookupOk \/ ImportMapGetOk \/ ImportSetOk
  \/ ImportFail

SpecImport == Init /\ [][NextImport]_vars

\* the page with checkbox changes as the only writers of the store
NextToggle ==
  \/ Tick
  \/ InvalidateFire
  \/ ToggleStart \/ ToggleGetOk \/ ToggleSaveGetOk \/ ToggleCreateSetOk
  \/ ToggleSaveSetOk \/ ToggleFail

SpecToggle == Init /\ [][NextToggle]_vars

\* the cache and the trackers being rendered, on a clock that steps around
\* the TTL
NextCache ==
  \/ TickFine
  \/ TrackerStart \/ TrackerFetchOk \/ TrackerFetchFail \/ TrackerShow

SpecCache == Init /\ [][NextCache]_vars

\* trackers being rendered while checkboxes change
NextRender ==
  \/ Tick
  \/ InvalidateFire
  \/ TrackerStart \/ TrackerFetchOk \/ TrackerFetchFail \/ TrackerShow
  \/ ToggleStart \/ ToggleGetOk \/ ToggleSaveGetOk \/ ToggleCreateSetOk
  \/ ToggleSaveSetOk \/ ToggleFail

SpecRender == Init /\ [][NextRender]_vars

\* the page's resources from load to teardown and restore, timer by timer;
\* the store does not answer
NextPage ==
  \/ DomReady \/ CheckAndInitFire \/ InitResume \/ InjectFire \/ RefreshFire
  \/ IconClick \/ TooltipFire \/ OutsideClick
  \/ InvalidateFire
  \/ BeforeUnload \/ PageHide \/ PageShow
  \/ Advance

SpecPage == Init /\ [][NextPage]_vars

\* the page frozen in the back/forward cache and restored, its trackers
\* rendered from the cache
NextRestore ==
  \/ DomReady \/ CheckAndInitFire \/ InitResume \/ InjectFire \/ RefreshFire
  \/ Awake(TrackerFetchOk) \/ Awake(TrackerFetchFail) \/ Awake(TrackerShow)
  \/ Awake(ReaderFetchOk) \/ Awake(ReaderFetchFail)
  \/ InvalidateFire
  \/ PageHide \/ PageShow
  \/ Advance

SpecRestore == Init /\ [][NextRestore]_vars

\* the cache built by a tracker and patched entry by entry
NextPatch ==
  \/ Tick
  \/ TrackerStart \/ TrackerFetchOk \/ TrackerFetchFail \/ TrackerShow
  \/ UpdateCacheArticleCall

SpecPatch == Init /\ [][NextPatch]_vars

\* mergeArticleState applied to stored records and drafts
NextMerge == MergeArticleStateCall

SpecMerge == Init /\ [][NextMerge]_vars

\* background syncs of pages with several links, nothing else writing
NextSync ==
  \/ SyncStartBatch
  \/ SyncCacheFetchOk \/ SyncCacheFetchFail \/ SyncFallbackOk
  \/ SyncSetOk \/ SyncFail

SpecSync == Init /\ [][NextSync]_vars

\* imports of files of any shape, by the popup alone
NextImportData ==
  \/ ImportDataStart
  \/ ImportLookupOk \/ ImportMapGetOk \/ ImportSetOk \/ ImportFail

SpecImportData == Init /\ [][NextImportData]_vars

\* the two callers of saveArticles: syncs of pages with several links and
\* imports
NextBatch ==
  \/ SyncStartSlashes
  \/ SyncCacheFetchOk \/ SyncCacheFetchFail \/ SyncFallbackOk
  \/ SyncSetOk \/ SyncFail
  \/ ImportStartSlashes \/ ImportLookupOk \/ ImportMapGetOk \/ ImportSetOk
  \/ ImportFail

SpecBatch == Init /\ [][NextBatch]_vars

\* normalizeUrl applied to URL strings
NextUrl == NormalizeUrlCall

SpecUrl == Init /\ [][NextUrl]_vars

\* callers tracking timers and document listeners between two audits
NextAudit ==
  \/ TrackTimeoutCall \/ TrackListenerCall
  \/ AuditTick
  \/ PeriodicCleanup

SpecAudit == Init /\ [][NextAudit]_vars

\* background syncs handed drafts of any shape, nothing else writing
NextSyncRaw ==
  \/ SyncStartRaw
  \/ SyncCacheFetchOk \/ SyncCacheFetchFail \/ SyncFallbackOk
  \/ SyncSetOk \/ SyncFail

SpecSyncRaw == Init /\ [][NextSyncRaw]_vars

\* two callers of getArticlesCache while the popup's imports change the store
NextOverlap ==
  \/ Tick
  \/ GetCacheStart \/ GetCacheFetchOk \/ GetCacheFetchFail
  \/ ImportStart \/ ImportLookupOk \/ ImportMapGetOk \/ ImportSetOk
  \/ ImportFail

SpecOverlap == Init /\ [][NextOverlap]_vars

\* the two resolvers of a record's read state applied to stored records and
\* incoming records
NextStatus == DetermineReadStatusCall \/ MergeArticleStateCall

SpecStatus == Init /\ [][NextStatus]_vars

\* one tracker whose checkbox changes while the filter buttons are clicked
NextFilter ==
  \/ Tick
  \/ InvalidateFire
  \/ TrackerStart \/ TrackerFetchOk \/ TrackerFetchFail \/ TrackerShow
  \/ CheckboxChange \/ ToggleGetOk \/ ToggleSaveGetOk \/ ToggleCreateSetOk
  \/ ToggleSaveSetOk \/ ToggleFail
  \/ ChangeRender \/ FilterTimerFire
  \/ FilterClick \/ FilterSaved \/ FilterFetchOk \/ FilterFetchFail

SpecFilter == Init /\ [][NextFilter]_vars

\* invalidations among tracked timers and the periodic audit; the browser
\* runs every pending timer once its delay has passed
NextExpire ==
  \/ ReaderStart \/ ReaderFetchOk \/ ReaderFetchFail
  \/ InvalidateCall
  \/ TrackTimeoutBurst
  \/ AuditTick
  \/ PeriodicCleanup
  \/ InvalidateTimerRuns \/ CallerTimerRuns

SpecExpire ==
  /\ Init /\ [][NextExpire]_vars
  /\ WF_vars(InvalidateTimerRuns) /\ WF_vars(CallerTimerRuns)

\* the trackers of the article elements from page load through mutations,
\* teardown and restore
NextInject ==
  \/ DomReady \/ CheckAndInitRuns \/ InitResume
  \/ ArticleAdded
  \/ ListInjectFire \/ MutationFire \/ MutationFilterFire \/ ListRefreshFire
  \/ InvalidateTimerRuns
  \/ PageHide \/ PageShow
  \/ FrozenAdvance

SpecInject == Init /\ [][NextInject]_vars

(***************************************************************************)
(* Properties                                                              *)
(***************************************************************************)
Quiescent == Free(tg) /\ Free(rd) /\ Free(sy) /\ Free(im)
TrackedDone == im.pc = "done" /\ HasProp(im, "file")
EntryKey(entry) == GetArticleKey(entry.url)
Max(a, b) == IF a >= b THEN a ELSE b

\* C1: the step in which syncArticles' batch write takes effect changes the
\* isRead and readDate of no record that is in the store at that moment
\* (a draft whose URL is already stored causes no change of read-state).
C1_SyncKeepsStoredReadState ==
  [][(sy.pc = "set" /\ sy'.pc = "done" /\ sy'.res = "ok") =>
       \A k \in DOMAIN store :
         /\ store'[k].isRead = store[k].isRead
         /\ store'[k].readDate = store[k].readDate]_vars

\* C2: after a successful import, every entry whose merge against an existing
\* record was accepted ("updated"), that carries a readDate and is the only
\* entry of the file for its URL, is stored read with the imported readDate.
C2_AcceptedImportIsStored ==
  (TrackedDone /\ im.res = "ok") =>
    LET valid == ValidArticles(im.file)
    IN  \A i \in 1..Len(valid) :
          ( /\ im.types[i] = "updated"
            /\ valid[i].readDate # NullDate
            /\ \A j \in 1..Len(valid) :
                 EntryKey(valid[j]) = EntryKey(valid[i]) => j = i )
          => /\ EntryKey(valid[i]) \in DOMAIN store
             /\ store[EntryKey(valid[i])].isRead
             /\ store[EntryKey(valid[i])].readDate = valid[i].readDate

\* C3: a getArticlesCache() call made while the held snapshot is the empty
\* mapping left by a failed fetch never returns that snapshot without a fetch.
C3_FetchRetriedAfterFailure ==
  ~(rd.pc = "done" /\ rd.outcome = "hit" /\ rd.sawPoisoned)

\* C4: while a snapshot is held and within its TTL (so getArticlesCache()
\* returns it and getArticleFromCache reads it), it shows, for every URL whose
\* toggle was patched into the cache and that was not written since, the
\* isRead and readDate that the toggle wrote.
C4_PatchedStateStaysVisible ==
  \A k \in DOMAIN patched :
    ~CacheStale(now) =>
      LET shown == GetArticleFromCache(patched[k].url)
      IN  /\ shown # NoArticle
          /\ shown.isRead = patched[k].isRead
          /\ shown.readDate = patched[k].readDate

\* C5: when no operation is in flight, every URL whose markAsRead completed,
\* with no markAsUnread issued for it since, is stored with isRead = true.
C5_MarkAsReadNotLost ==
  Quiescent => \A k \in markedRead : k \in DOMAIN store /\ store[k].isRead

\* C6: after two successful imports, each of one file holding the same
\* not yet stored article as read, with different readDates, the stored
\* record carries the later of the two readDates.
SingleRead(file) ==
  /\ Len(file) = 1
  /\ ValidateArticle(file[1])
  /\ file[1].isRead
  /\ file[1].readDate # NullDate

C6_ImportOrderKeepsLaterDate ==
  ( /\ TrackedDone /\ im.res = "ok" /\ imPrev # NoImport
    /\ SingleRead(im.file) /\ SingleRead(imPrev.file)
    /\ EntryKey(im.file[1]) = EntryKey(imPrev.file[1])
    /\ im.file[1].readDate # imPrev.file[1].readDate
    /\ EntryKey(im.file[1]) \notin DOMAIN imPrev.pre )
  => /\ EntryKey(im.file[1]) \in DOMAIN store
     /\ store[EntryKey(im.file[1])].readDate
          = Max(im.file[1].readDate, imPrev.file[1].readDate)

\* C7: when the same file is imported twice in a row, the store after the
\* second import equals the store after the first, and the second import
\* reports updated = 0.
C7_ImportTwiceIsIdempotent ==
  (TrackedDone /\ im.res = "ok" /\ imPrev # NoImport /\ im.file = imPrev.file)
  => /\ store = imPrev.post
     /\ im.counts.updated = 0

\* C8: an import never decreases read-state: a record that was read when the
\* import started is still read when it ends, with a readDate that is not
\* earlier; an entry whose isRead is falsy is classified as skipped; and a URL
\* for which the file holds no read entry has the record it had before, or
\* none as before.
C8_ImportNeverDecreasesReadState ==
  TrackedDone =>
    LET valid == ValidArticles(im.file)
        readKeys == {EntryKey(valid[i]) :
                       i \in {j \in 1..Len(valid) : valid[j].isRead}}
    IN  /\ \A k \in DOMAIN im.pre :
             im.pre[k].isRead =>
               /\ k \in DOMAIN store
               /\ store[k].isRead
               /\ store[k].readDate >= im.pre[k].readDate
        /\ \A i \in 1..Len(im.types) :
             ~valid[i].isRead => im.types[i] = "skipped"
        /\ \A k \in (DOMAIN store \cup DOMAIN im.pre) \ readKeys :
             Lookup(store, k) = Lookup(im.pre, k)

\* an import ended that started from a store holding a read record, with a
\* file holding a read entry for that record and an unread entry
C8_Witness ==
  /\ TrackedDone /\ im.res = "ok"
  /\ LET valid == ValidArticles(im.file)
     IN  /\ \E i \in 1..Len(valid) :
               /\ valid[i].isRead
               /\ EntryKey(valid[i]) \in DOMAIN im.pre
               /\ im.pre[EntryKey(valid[i])].isRead
         /\ \E i \in 1..Len(valid) : ~valid[i].isRead

\* C9: every stored record with isRead = false has readDate = null.
C9_UnreadHasNoReadDate ==
  \A k \in DOMAIN store : ~store[k].isRead => store[k].readDate = NullDate

\* a markAsUnread completed on a record that was stored as read, and the
\* record is now stored unread
C9_Witness ==
  /\ tg.pc = "done" /\ tg.res = "record" /\ ~tg.checked /\ tg.wasRead
  /\ tg.key \in DOMAIN store /\ ~store[tg.key].isRead

\* C10: every stored record with isRead = true has a non-null readDate.
C10_ReadHasReadDate ==
  \A k \in DOMAIN store : store[k].isRead => store[k].readDate # NullDate

\* C11: a step changes the readDate of a stored record only if it changes the
\* record's isRead; in particular markAsRead on a record that is already read
\* leaves its readDate as it was.
C11_ReadDateChangesOnlyWithIsRead ==
  [][\A k \in DOMAIN store \cap DOMAIN store' :
       store'[k].readDate # store[k].readDate
         => store'[k].isRead # store[k].isRead]_vars

\* C12: with checkbox changes as the only writers, markAsRead(url) on a URL
\* absent from the store resolves to a record with the normalized url,
\* isRead = true and a readDate taken during the call, and the store then
\* holds exactly that record under the url's key (what getArticle(url)
\* returns); markAsUnread(url) resolves to and stores isRead = false,
\* readDate = null.
C12_MarkResolvesToStoredRecord ==
  (tg.pc = "done" /\ tg.res = "record" /\ tg.created) =>
    /\ tg.ret.url = NormalizeUrl(tg.url)
    /\ tg.ret.isRead = tg.checked
    /\ tg.checked => (tg.t0 <= tg.ret.readDate /\ tg.ret.readDate <= now)
    /\ ~tg.checked => tg.ret.readDate = NullDate
    /\ Lookup(store, GetArticleKey(tg.url)) = tg.ret

\* a markAsRead on a URL that was absent from the store has resolved
C12_Witness ==
  /\ tg.pc = "done" /\ tg.res = "record" /\ tg.created /\ tg.checked
  /\ tg.ret.isRead

\* C14: a getArticlesCache() call made while a populated snapshot is held
\* returns it without a store fetch when the snapshot's age is below the TTL,
\* and issues a store fetch when its age is above the TTL, the age being the
\* time since the snapshot was assigned.
GetCallMade == Free(tr) /\ tr'.pc \in {"fetch", "resolved"}

C14_TtlBoundaryFromCreation ==
  [][(GetCallMade /\ ~articlesCache.isNull /\ ~cachePoisoned) =>
       /\ (now - cacheCreated < CacheTtl) => tr'.pc = "resolved"
       /\ (now - cacheCreated > CacheTtl) => tr'.pc = "fetch"]_vars

\* C20: the getArticleFromCache(url) step issues no store fetch and leaves the
\* snapshot and its timestamp as they are; its result is null when no snapshot
\* is held or the normalized url is not a key of it, else the held entry.
LookupMade == tr.pc = "resolved" /\ tr'.pc = "done"

C20_LookupReadsHeldSnapshotOnly ==
  [][LookupMade =>
       /\ articlesCache' = articlesCache
       /\ cacheTimestamp' = cacheTimestamp
       /\ store' = store
       /\ rd' = rd /\ sy' = sy /\ tg' = tg
       /\ tr'.article =
            IF articlesCache.isNull
               \/ NormalizeUrl(tr.url) \notin DOMAIN articlesCache.map
            THEN NoArticle
            ELSE articlesCache.map[NormalizeUrl(tr.url)]]_vars

\* a lookup with a url that is not in normalized form returned the held entry
C20_Witness ==
  /\ tr.pc = "done" /\ ~tr.failed
  /\ tr.url # NormalizeUrl(tr.url)
  /\ tr.article # NoArticle
  /\ ~articlesCache.isNull

\* C15: the step in which a checkbox change's handler finishes either patches
\* the cache (a held snapshot then shows the record the call resolved to under
\* the url's key) or calls invalidateCache() (the clearing is scheduled one
\* debounce delay ahead).  markAsRead / markAsUnread cannot resolve to null
\* here: a tracker is only created for a url that validateUrl accepts.
HandlerFinishes == tg.pc \notin {"idle", "done"} /\ tg'.pc = "done"

InvalidateTimers(ts) == {t \in ts.live : t.kind = "invalidate"}
InvalidateCalled == inv' # inv /\ inv'.calls > 0
SnapshotCleared == inv.calls > 0 /\ inv'.calls = 0

C13_InvalidationIsDebounced ==
  [][/\ InvalidateCalled =>
          InvalidateTimers(timeouts') =
            {[id |-> invalidateTimeout', kind |-> "invalidate",
              due |-> now + CacheInvalidation]}
     /\ SnapshotCleared =>
          /\ now = inv.last + CacheInvalidation
          /\ InvalidateTimers(timeouts') = {}
     /\ (articlesCache'.isNull /\ ~articlesCache.isNull) => SnapshotCleared]_vars

\* a clearing ended a run of two or more calls and dropped a held snapshot,
\* the earlier timers having been cancelled through the resource manager
C13_Witness ==
  /\ inv.ended >= 2
  /\ inv.calls = 0
  /\ inv.held
  /\ articlesCache.isNull
  /\ hist.restores > 0

\* C16: once the teardown handler has run, and until the page is restored,
\* the resource manager tracks no pending timer.
C16_NoTimerAfterTeardown == hist.torn => timeouts.tracked = {}

\* C17: resourceManager.cleanup() releases everything tracked when it runs:
\* no tracked observer is left observing, no tracked timer is left pending (a
\* timer that is not pending never fires, ids are not reused), no tracked
\* listener is left on document, the controller is aborted; and no cleanup()
\* releases what an earlier cleanup() released.
CleanupRuns == hist'.cleanups # hist.cleanups
LiveIds(ts) == {t.id : t \in ts.live}

C17_CleanupReleasesOnce ==
  [][/\ CleanupRuns =>
          /\ observers.tracked \cap observers'.connected = {}
          /\ timeouts.tracked \cap LiveIds(timeouts') = {}
          /\ listeners.tracked \cap listeners'.doc = {}
          /\ abort.current \in abort'.aborted
     /\ \A r \in hist'.released :
          /\ r[1] = "timer" => r[2] \notin LiveIds(timeouts')
          /\ r[1] = "signal" => r[2] \in abort'.aborted
     /\ hist'.twice = {}]_vars

\* cleanup() ran twice and released an observer, a timer and a listener
C17_Witness ==
  /\ hist.cleanups = 2
  /\ \E o \in {1} : <<"observer", o>> \in hist.released
  /\ \E r \in hist.released : r[1] = "timer"
  /\ \E r \in hist.released : r[1] = "listener"

\* C18: the step in which the teardown handler runs leaves no listener on
\* document and none tracked; a tooltip-open timer that was pending at a
\* teardown is not pending afterwards, and the close handler it would have
\* registered is not on document.
C18_NoListenerOutlivesTeardown ==
  [][/\ CleanupRuns => (listeners'.doc = {} /\ listeners'.tracked = {})
     /\ \A r \in hist'.tornTimers :
          r.kind = "tooltip" =>
            (r.id \notin LiveIds(timeouts') /\ r.id \notin listeners'.doc)]_vars

\* the teardown handler ran while a tooltip-open timer was pending
C18_Witness ==
  /\ hist.torn
  /\ \E r \in hist.tornTimers : r.kind = "tooltip"

\* C19: when the timer of handlePageShow runs, the snapshot held before the
\* page was frozen has been cleared: the cache holds nothing or a snapshot
\* assigned after the restore; and the lookup of a tracker created again
\* after the latest restore reads nothing or such a snapshot.
RefreshRuns == hist'.refreshes # hist.refreshes
FetchedAfterRestore == articlesCache.isNull \/ cacheCreated >= hist.restoredAt

C19_RestoreRendersFreshSnapshot ==
  [][/\ RefreshRuns => FetchedAfterRestore
     /\ (LookupMade /\ hist.recreated > 0 /\ hist.recreated = hist.restores)
          => FetchedAfterRestore]_vars

\* after a restore that found a snapshot held, a tracker created again
\* showed a record of the store
C19_Witness ==
  /\ hist.restores > 0 /\ hist.recreated = hist.restores
  /\ inv.held
  /\ tr.pc = "done" /\ ~tr.failed
  /\ tr.article # NoArticle
  /\ cacheCreated >= hist.restoredAt

\* a step that is a call of updateCacheArticle
PatchCalled == ap'.seq # ap.seq /\ ap'.fn = "updateCacheArticle"

\* C21: updateCacheArticle(url, record) changes only the entry of the
\* normalized url in the held snapshot: it sets the entry to the record, or
\* deletes it when the record is null.  Every other entry, the cache
\* timestamp and the store stay as they were, no fetch is started, and
\* without a held snapshot nothing changes at all.
C21_PatchTouchesOneEntry ==
  [][PatchCalled =>
       LET k == NormalizeUrl(ap'.url)
           old == articlesCache.map
           new == articlesCache'.map
       IN /\ cacheTimestamp' = cacheTimestamp
          /\ store' = store
          /\ tr' = tr /\ rd' = rd
          /\ articlesCache.isNull => articlesCache' = articlesCache
          /\ ~articlesCache.isNull =>
               /\ ~articlesCache'.isNull
               /\ \A j \in (DOMAIN old \cup DOMAIN new) \ {k} :
                    /\ j \in DOMAIN old /\ j \in DOMAIN new
                    /\ new[j] = old[j]
               /\ IF ap'.article = NoArticle
                  THEN k \notin DOMAIN new
                  ELSE k \in DOMAIN new /\ new[k] = ap'.article]_vars

\* a held snapshot of two entries lost one of them to a null patch whose url
\* was not in normal form
C21_Witness ==
  /\ ap.fn = "updateCacheArticle"
  /\ ap.article = NoArticle
  /\ ap.url # NormalizeUrl(ap.url)
  /\ ~ap.before.isNull
  /\ NormalizeUrl(ap.url) \in DOMAIN ap.before.map
  /\ Cardinality(DOMAIN ap.before.map) = 2
  /\ Cardinality(DOMAIN articlesCache.map) = 1

\* C22: merging any draft into an existing record that is read gives a
\* record that is read and carries the existing record's readDate, whatever
\* isRead and readDate the draft has.
C22_MergeKeepsExistingRead ==
  (/\ ap.fn = "mergeArticleState"
   /\ ap.existing # NoArticle
   /\ ap.existing.isRead)
  => /\ ap.out.isRead
     /\ ap.out.readDate = ap.existing.readDate

\* a draft that says unread, with a null readDate, was merged into a record
\* read at 55000
C22_Witness ==
  /\ ap.fn = "mergeArticleState"
  /\ ap.existing # NoArticle
  /\ ap.existing.isRead /\ ap.existing.readDate = 55000
  /\ HasProp(ap.newArticle, "isRead") /\ ~ap.newArticle.isRead
  /\ HasProp(ap.newArticle, "readDate")
  /\ ap.newArticle.readDate = NullDate
  /\ ap.out.isRead

\* C23: the number syncArticles returns is the number of records that are
\* in the store after the call and were not in it before, also when several
\* drafts of the call normalize to the same URL.
C23_SyncCountsNewRecords ==
  (/\ ap.fn = "syncArticles"
   /\ sy.pc = "done" /\ sy.res = "ok")
  => sy.count = Cardinality(DOMAIN store \ DOMAIN ap.pre)

\* the tracked import ran as importDataFromFile does when it runs alone
ImportRanAlone ==
  (TrackedDone /\ im.res = "ok")
  => /\ store = ImportAlone(im.pre, im.file).store
     /\ im.counts = ImportAlone(im.pre, im.file).counts

\* C24: the store and the counts an import ends with do not depend on the
\* order of the entries in the file, also when two entries have the same
\* normalized URL: the file read backwards gives the same store and counts.
C24_ImportOrderIndependent ==
  (TrackedDone /\ im.res = "ok")
  => /\ store = ImportAlone(im.pre, Reverse(im.file)).store
     /\ im.counts = ImportAlone(im.pre, Reverse(im.file)).counts

\* C25: for a structurally valid import file, imported + updated + skipped
\* is the number of entries in the file, and articlesToSave, the batch handed
\* to saveArticles, has imported + updated elements.
C25_CountsAddUp ==
  /\ (TrackedDone /\ im.res = "ok")
       => im.counts.imported + im.counts.updated + im.counts.skipped
            = Len(im.file)
  /\ (im.pc \in {"map_get", "set"} /\ im.track)
       => LET counts == ImportCounts(im.file, im.results)
          IN  /\ Len(ImportToSave(im.results))
                   = counts.imported + counts.updated
              /\ counts.imported + counts.updated + counts.skipped
                   = Len(im.file)

\* an import of two entries ended, one entry without a valid url and one that
\* was saved
C25_Witness ==
  /\ TrackedDone /\ im.res = "ok"
  /\ Len(im.file) = 2
  /\ Len(ValidArticles(im.file)) = 1
  /\ im.counts.imported = 1
  /\ im.counts.skipped = 1
  /\ store # im.pre

\* the parsed file is not an object, or has no articles array
Malformed(data) ==
  \/ data.type \in {"null", "string"}
  \/ ~HasProp(data, "articles")
  \/ ~data.articles.isArray

\* a step that is a call of importDataFromFile
ImportCalled == ap'.seq # ap.seq /\ ap'.fn = "importDataFromFile"

\* C26: an import whose input is not an object, or has no articles array,
\* fails with a single error before any store read or write for an article:
\* the call ends in the step that checks the input, with the store as it was,
\* and stays ended with that error.
C26_MalformedImportFailsEarly ==
  [][/\ (ImportCalled /\ Malformed(ap'.data))
          => /\ im'.pc = "done" /\ im'.res = "error"
             /\ im'.error # ""
             /\ store' = store
     /\ (ap.fn = "importDataFromFile" /\ Malformed(ap.data) /\ ~ImportCalled)
          => im' = im /\ store' = store]_vars

\* an import of an object whose articles property is not an array has failed,
\* the store holding a record
C26_Witness ==
  /\ ap.fn = "importDataFromFile"
  /\ ap.data.type = "object"
  /\ HasProp(ap.data, "articles") /\ ~ap.data.articles.isArray
  /\ im.pc = "done" /\ im.res = "error"
  /\ store # EmptyMap

\* the step in which the set call of a batch write resolves: the call ends;
\* on an error the store is as it was, otherwise the store holds the whole
\* batch and nothing else changed
SetResolves(op, opNext) ==
  (op.pc = "set" /\ opNext # op)
  => /\ opNext.pc = "done"
     /\ IF opNext.res = "error" THEN store' = store
        ELSE /\ DOMAIN store' = DOMAIN store \cup DOMAIN op.data
             /\ \A k \in DOMAIN op.data : store'[k] = op.data[k]
             /\ \A k \in DOMAIN store \ DOMAIN op.data : store'[k] = store[k]

\* C27: a batch write (saveArticles, as syncArticles and the import call it)
\* issues one store set call for the whole batch: the store changes only in
\* the step that resolves that call, all of the batch at once.  When the call
\* fails the operation rejects and none of the batch's records is in the
\* store.
C27_BatchWriteIsOneSet ==
  [][/\ SetResolves(sy, sy')
     /\ SetResolves(im, im')
     /\ store' # store
          => \/ sy.pc = "set" /\ sy'.pc = "done" /\ sy'.res = "ok"
             \/ im.pc = "set" /\ im'.pc = "done" /\ im'.res = "ok"]_vars

\* a sync of two drafts for two articles failed at its set call, and neither
\* article is in the store
C27_Witness ==
  /\ ap.fn = "syncArticles"
  /\ sy.pc = "done" /\ sy.res = "error" /\ sy.at = "set"
  /\ Len(ap.drafts) = 2
  /\ GetArticleKey(ap.drafts[1].url) # GetArticleKey(ap.drafts[2].url)
  /\ \A i \in 1..2 : GetArticleKey(ap.drafts[i].url) \notin DOMAIN store

\* C28: normalizeUrl is idempotent for every URL form, absolute or relative,
\* with one or several trailing slashes, or the root: normalizing what it
\* returned gives the same string again.
C28_NormalizeUrlIdempotent ==
  ap.fn = "normalizeUrl" => NormalizeUrl(ap.out) = ap.out

\* C29: every stored record is stored under the key built from its own url
\* (prefix + record.url), its url is a fixed point of normalizeUrl, and no
\* two stored records denote the same normalized URL, whatever writes have
\* been made.
C29_StoredRecordsCanonical ==
  /\ \A k \in DOMAIN store :
       /\ k = store[k].url
       /\ NormalizeUrl(store[k].url) = store[k].url
  /\ \A k1, k2 \in DOMAIN store :
       k1 # k2 => NormalizeUrl(store[k1].url) # NormalizeUrl(store[k2].url)

\* a step in which the audit ran past its gate
AuditRuns == audit'.runs # audit.runs

\* C30: whenever the periodic audit runs and more than 100 timers or more
\* than 50 document listeners are tracked, the tracked resources of that
\* kind are released and a warning is logged.
C30_AuditClearsExcess ==
  [][AuditRuns =>
       /\ Cardinality(timeouts.tracked) > TimeoutLimit
            => /\ timeouts'.tracked = {}
               /\ \A t \in timeouts'.live : t.id \notin timeouts.tracked
               /\ "timeouts" \in audit'.warnings
       /\ Cardinality(listeners.tracked) > ListenerLimit
            => /\ listeners'.tracked = {}
               /\ listeners'.doc \cap listeners.tracked = {}
               /\ "listeners" \in audit'.warnings]_vars

\* the part of the audit about timers
AuditClearsTimers ==
  [][AuditRuns =>
       (Cardinality(timeouts.tracked) > TimeoutLimit
          => /\ timeouts'.tracked = {}
             /\ \A t \in timeouts'.live : t.id \notin timeouts.tracked
             /\ "timeouts" \in audit'.warnings)]_vars

\* an audit found more than 100 timers tracked
AuditSawTimers == "timeouts" \in audit.warnings

\* a draft with a non-empty url and a non-empty title
CompleteDraft(d) ==
  /\ HasProp(d, "url") /\ d.url # EmptyUrl
  /\ HasProp(d, "title") /\ d.title # ""

C32_FetchAtExactlyTtl ==
  [][(GetCallMade /\ ~articlesCache.isNull) =>
       /\ tr'.pc = "resolved" => now - cacheTimestamp < CacheTtl
       /\ now - cacheTimestamp = CacheTtl => tr'.pc = "fetch"]_vars

\* both calls fetched, the later one while the earlier fetch was pending, and
\* both fetches have resolved
BothFetched ==
  /\ ap.fn = "getArticlesCache"
  /\ \A c \in Callers : ap.calls[c].pc = "done"
                          /\ ap.calls[c].outcome = "fetched"
  /\ \E c \in Callers : ap.calls[c].overlapped

\* C33: when two getArticlesCache() calls overlap while the cache is empty or
\* expired, each issues its own store fetch, and once both have resolved the
\* held snapshot is exactly the mapping built from the fetch that resolved
\* last, never a mixture of the two.
C33_LastFetchWins ==
  [][/\ (ap'.seq # ap.seq /\ ap'.fn = "getArticlesCache" /\ CacheStale(now))
          => \E c \in Callers :
               /\ Free(CacheCalls[c])
               /\ ap'.calls[c].pc = "fetch"
     /\ BothFetched'
          => articlesCache' = HeldCache(ap'.calls[ap'.last].saw)]_vars

\* two overlapping fetches resolved with different results, an import having
\* written between them
C33_Witness ==
  /\ BothFetched
  /\ ap.calls[1].saw # ap.calls[2].saw
  /\ articlesCache.map = ArticlesByUrl(store)

C35_MergeFollowsReadStatus ==
  ap.fn \in {"determineReadStatus", "mergeArticleState"} =>
    LET merged == MergeArticleState(ap.existing, ap.newArticle)
        status == DetermineReadStatus(ap.existing, ap.newArticle, now)
    IN  /\ merged.isRead = status.isRead
        /\ merged.readDate = status.readDate

\* C36: when markAsRead / markAsUnread fails with a store error during a
\* checkbox change, the handler returns normally and the status icon and the
\* link style stay what they were before the change.
C36_FailedChangeKeepsRendering ==
  fl.outcome = "error" => fl.icon = fl.before /\ fl.link = fl.before

\* C37: when markAsRead(url) or markAsUnread(url) rejects because a store
\* operation failed, the store is what it was before the call: no record
\* was created or modified.
C37_FailedMarkLeavesStore ==
  tg.pc = "done" /\ tg.res = "error" => store = fl.pre

\* no applyFilter call, store operation or timer is pending
FilterQuiet ==
  /\ fl.saves = 0 /\ fl.calls = <<>> /\ ~fl.changing
  /\ Free(tg) /\ Free(tr)
  /\ timeouts.live = {}

CachedRead(u) ==
  LET article == GetArticleFromCache(u)
  IN  article # NoArticle /\ article.isRead

\* C38: once no applyFilter call, store operation or timer is pending, the
\* hidden articles are those the current filter excludes: none with the
\* filter all, those whose cached record is not read with the filter read,
\* those whose cached record is read with the filter unread.
C38_HiddenMatchesFilter ==
  FilterQuiet =>
    fl.hidden = {u \in fl.els :
                   \/ fl.filter = "read" /\ ~CachedRead(u)
                   \/ fl.filter = "unread" /\ CachedRead(u)}

\* invalidateCache() was called and its timer has not run since
InvalidationDue == inv.calls > 0

\* C39: once invalidateCache() has been called, and no further call or
\* teardown follows, the snapshot eventually becomes absent, whatever timers
\* are tracked, run or audited in between.
C39_InvalidationClearsSnapshot == InvalidationDue ~> articlesCache.isNull

\* C40: after any sequence of initial injection, mutation-triggered
\* injections and restore-triggered re-injections, every article element
\* holds at most one tracker.
C40_OneTrackerPerArticle ==
  \A e \in DOMAIN fl.trackers : fl.trackers[e] <= 1

\* init injected, the observer's timer injected for an added element and a
\* restore re-injected: every article element holds its tracker
C40_Witness ==
  /\ hist.refreshes > 0
  /\ fl.mutFilterTimeout # NoTimer
  /\ LateEls \cap fl.els # {}
  /\ \A e \in fl.els : fl.trackers[e] = 1

====
